---------------------------- MODULE Spec2Model ----------------------------
(***************************************************************************)
(* Model of the windowed carbon-intensity forecast of src/cats/forecast.py *)
(* (class WindowedForecast) and of the selection of its minimum window;    *)
(* of the scheduling layer built on src/core/forecast.py (job_queue.py,    *)
(* carbon_scheduler.py); and of the emission and footprint estimators      *)
(* (emissions_tracker.py, carbonFootprint.py).  Six specifications share   *)
(* the variables: Spec, IterSpec, SchedSpec, EstimateSpec, CoreSpec (the   *)
(* averager of src/core/forecast.py, called) and RunSpec (the scheduler    *)
(* that the sessions share, with run_scheduled_job taken step by step).    *)
(*                                                                         *)
(* Time: a datetime is an integer number of minutes, a timedelta an        *)
(* integer number of minutes; total_seconds() is 60 times that.            *)
(* Intensity values: Python floats are modelled as exact rationals         *)
(* [n, d] in lowest terms, so every property below is a property of the    *)
(* algorithm in real arithmetic; IEEE rounding is not modelled.            *)
(* Python's None is the record None; an Optional[int] k is Some(k).        *)
(***************************************************************************)
EXTENDS Integers, Sequences, FiniteSets, TLC

VARIABLES
    args,   \* the arguments of the constructor, or of the handler called
    wf,     \* the WindowedForecast object's fields once constructed
    pc,     \* "new", then "failed", or "ready" and "returned" in turn
    op,     \* the last operation called on the object
    idx,    \* the index argument of the last call (0 when it takes none)
    ret,    \* what the last operation returned or raised
    iters,  \* the generators made by iter(windowed), with what they yielded
    jobs,   \* JobQueue.jobs, the list of GPUJob records
    tracker, \* the GPUEmissionsTracker of the scheduler: its fields
    clock,  \* what datetime.now() returns, in minutes
    calls   \* the run_scheduled_job call of each thread: where it stands

vars == <<args, wf, pc, op, idx, ret, iters, jobs, tracker, clock, calls>>

\* Python's None, and an Optional[int] that is not None
None == [none |-> TRUE]
Some(k) == [v |-> k]

\* GPUEmissionsTracker.__init__ with no log on disk: nothing tracked
NewTracker ==
    [tracker |-> None, current_job |-> None, start_time |-> None,
     emissions_log |-> <<>>]

\* The element of a set of one. A local name that the program assigns
\* once is bound as v in Assigned({Rest(v) : v \in {value}}): the value is
\* computed once, as the assignment computes it.
Assigned(S) == CHOOSE r \in S : TRUE

\* ------------------------------------------------------------- bounds
MaxSamples == 4
MaxValue == 1
MaxStep == 2
MaxTime == 5
MaxDuration == 3
MaxLookahead == 2
MaxIndex == 2

\* ---------------------------------------------------------- rationals
Abs(x) == IF x < 0 THEN -x ELSE x

RECURSIVE Gcd(_, _)
Gcd(a, b) == IF b = 0 THEN a ELSE Gcd(b, a % b)

\* The float n/d, d # 0, in lowest terms with a positive denominator.
Rat(n, d) ==
    LET g == Gcd(Abs(n), Abs(d))
        s == IF d < 0 THEN -1 ELSE 1
    IN  [n |-> s * (n \div g), d |-> s * (d \div g)]

FromInt(k) == [n |-> k, d |-> 1]
\* x + y and x - y over the least common denominator, which keeps the
\* intermediate integers small
RAdd(x, y) ==
    LET g == Gcd(x.d, y.d)
    IN  Rat(x.n * (y.d \div g) + y.n * (x.d \div g), (x.d \div g) * y.d)
RSub(x, y) ==
    LET g == Gcd(x.d, y.d)
    IN  Rat(x.n * (y.d \div g) - y.n * (x.d \div g), (x.d \div g) * y.d)
RMul(x, y) == Rat(x.n * y.n, x.d * y.d)
\* x / y for y # 0 (the callers raise ZeroDivisionError themselves)
RDiv(x, y) == Rat(x.n * y.d, x.d * y.n)
RLess(x, y) == x.n * y.d < y.n * x.d
RLeq(x, y) == x.n * y.d <= y.n * x.d
Half == [n |-> 1, d |-> 2]

\* timedelta.total_seconds() of a timedelta of m minutes
TotalSeconds(m) == 60 * m

\* --------------------------------------------------------- Python lists
\* lst[k] for a 0-based Python index k: negative k counts from the end.
\* Defined only when InRange(lst, k); otherwise Python raises IndexError.
InRange(lst, k) == -Len(lst) <= k /\ k < Len(lst)
At(lst, k) == IF k < 0 THEN lst[Len(lst) + k + 1] ELSE lst[k + 1]

\* A slice bound as Python clips it.
Clip(lst, k) ==
    IF k < 0 THEN (IF Len(lst) + k < 0 THEN 0 ELSE Len(lst) + k)
    ELSE IF k > Len(lst) THEN Len(lst) ELSE k

\* lst[a:b]
Slice(lst, a, b) ==
    LET lo == Clip(lst, a)
        hi == Clip(lst, b)
    IN  IF hi <= lo THEN <<>> ELSE SubSeq(lst, lo + 1, hi)

\* lst[a:]
SliceFrom(lst, a) == Slice(lst, a, Len(lst))

\* int(a / b) for b > 0: the quotient truncated towards zero
IntQuotient(a, b) == IF a >= 0 THEN a \div b ELSE -((-a) \div b)

Min2(a, b) == IF a < b THEN a ELSE b
Max2(a, b) == IF a > b THEN a ELSE b

\* ------------------------------------------------- the constructor
\* CarbonIntensityPointEstimate(value, datetime)
Point(v, t) == [value |-> v, datetime |-> t]

\* _filter_data_by_constraints: the prefix of data up to the first sample
\* later than min(start + max_window_minutes, end_constraint) + duration.
MaxDataTime(start, duration, max_window_minutes, end_constraint) ==
    LET search_window_end == start + max_window_minutes
    IN  (IF end_constraint # None
            THEN Min2(search_window_end, end_constraint.v)
            ELSE search_window_end) + duration

RECURSIVE TakeWhileLeq(_, _)
TakeWhileLeq(data, t) ==
    IF data = <<>> \/ Head(data).datetime > t THEN <<>>
    ELSE <<Head(data)>> \o TakeWhileLeq(Tail(data), t)

FilterDataByConstraints(data, start, duration, max_window_minutes, end_constraint) ==
    TakeWhileLeq(data, MaxDataTime(start, duration, max_window_minutes, end_constraint))

\* max_window_minutes or 2820
DefaultWindow == 2820
OrDefault(m) == IF m = None \/ m.v = 0 THEN DefaultWindow ELSE m.v

\* bisect_right: the index before the first sample later than t, or the
\* last index when there is none. It is -1 when the first sample is later.
BisectRight(data, t) ==
    LET later == {i \in 0..(Len(data) - 1) : data[i + 1].datetime > t}
    IN  IF later = {} THEN Len(data) - 1
        ELSE (CHOOSE i \in later : \A j \in later : i <= j) - 1

\* A slip: the sample itself, not its successor, must reach t.
BisectLeftNoStep(data, step, t) ==
    LET reach == {i \in 0..(Len(data) - 1) : data[i + 1].datetime >= t}
    IN  IF reach = {} THEN -1
        ELSE (CHOOSE i \in reach : \A j \in reach : i <= j) + 1

\* bisect_left: one past the first sample with datetime + step >= t;
\* -1 stands for the ValueError raised when there is none.
BisectLeft(data, step, t) ==
    LET reach == {i \in 0..(Len(data) - 1) : data[i + 1].datetime + step >= t}
    IN  IF reach = {} THEN -1
        ELSE (CHOOSE i \in reach : \A j \in reach : i <= j) + 1

NoObject == [built |-> FALSE]

\* WindowedForecast.__init__: [err, obj]
NewWindowedForecast(a) ==
    LET capped == a.max_window_minutes # None \/ a.end_constraint # None
        filtered_data ==
            IF capped
            THEN FilterDataByConstraints(a.data, a.start, a.duration,
                     OrDefault(a.max_window_minutes), a.end_constraint)
            ELSE a.data
    IN  IF capped /\ Len(filtered_data) < 2
        THEN [err |-> "ValueError: Insufficient forecast data", obj |-> NoObject]
        ELSE IF Len(filtered_data) < 2
        THEN [err |-> "IndexError", obj |-> NoObject]
        ELSE
        LET data_stepsize == filtered_data[2].datetime - filtered_data[1].datetime
            end == a.start + a.duration
            data == SliceFrom(filtered_data, BisectRight(filtered_data, a.start))
            ndata == BisectLeft(data, data_stepsize, end)
        IN  IF ndata = -1
            THEN [err |-> "ValueError: No index found", obj |-> NoObject]
            ELSE [err |-> "none",
                  obj |-> [built |-> TRUE,
                           duration |-> a.duration,
                           max_window_minutes |-> a.max_window_minutes,
                           end_constraint |-> a.end_constraint,
                           data_stepsize |-> data_stepsize,
                           start |-> a.start,
                           end |-> end,
                           data |-> data,
                           ndata |-> ndata]]

\* ------------------------------------------------------------ __len__
\* A slip: a window starting exactly at the deadline is let through.
FirstPastDeadline(self, n) ==
    LET hit == {i \in 0..(n - 1) :
                   self.start + i * self.data_stepsize > self.end_constraint.v}
    IN  IF hit = {} THEN -1 ELSE CHOOSE i \in hit : \A j \in hit : i <= j

\* The first i in range(n) whose window start reaches the deadline, or -1.
FirstAtDeadline(self, n) ==
    LET hit == {i \in 0..(n - 1) :
                   self.start + i * self.data_stepsize >= self.end_constraint.v}
    IN  IF hit = {} THEN -1 ELSE CHOOSE i \in hit : \A j \in hit : i <= j

WindowCount(self) ==
    LET base_length == Len(self.data) - self.ndata
    IN  IF base_length <= 0 THEN 0
        ELSE
        LET byData == base_length - 1
            byWindow ==
                IF self.max_window_minutes # None
                THEN Min2(byData, IntQuotient(self.max_window_minutes.v,
                                              self.data_stepsize))
                ELSE byData
            first ==
                IF self.end_constraint # None
                THEN FirstAtDeadline(self, Min2(base_length, byWindow + 1))
                ELSE -1
            max_valid_index == IF first # -1 THEN first - 1 ELSE byWindow
        IN  Max2(0, max_valid_index + 1)

\* --------------------------------------------------------- __getitem__
\* A slip: the value of the earlier point, with no interpolation.
InterpNearest(p1, p2, when) ==
    IF TotalSeconds(p2.datetime - p1.datetime) = 0
    THEN [err |-> "ZeroDivisionError", pt |-> None]
    ELSE [err |-> "none", pt |-> Point(p1.value, when)]

\* interp(p1, p2, when): [err, pt]. The division by the pair's time step
\* raises ZeroDivisionError when both points carry the same datetime.
Interp(p1, p2, when) ==
    LET timestep == TotalSeconds(p2.datetime - p1.datetime)
        offset == TotalSeconds(when - p1.datetime)
    IN  IF timestep = 0
        THEN [err |-> "ZeroDivisionError", pt |-> None]
        ELSE LET slope == RDiv(RSub(p2.value, p1.value), FromInt(timestep))
             IN  [err |-> "none",
                  pt |-> Point(RAdd(p1.value, RMul(slope, FromInt(offset))), when)]

\* window_start = self.start + index * self.data_stepsize
WindowStart(self, index) == self.start + index * self.data_stepsize

\* A slip: the window's end computed one step late.
WindowEndLate(self, index) == self.end + (index + 1) * self.data_stepsize

\* window_end = self.end + index * self.data_stepsize
WindowEnd(self, index) == self.end + index * self.data_stepsize

\* lbound: interp(self.data[index], self.data[index + 1], window_start)
LBound(self, index) ==
    IF ~InRange(self.data, index) \/ ~InRange(self.data, index + 1)
    THEN [err |-> "IndexError", pt |-> None]
    ELSE Interp(At(self.data, index), At(self.data, index + 1),
                WindowStart(self, index))

\* A slip: the last sample taken as it is when index + ndata is the last
\* index of the data.
RBoundAtLastIndex(self, index) ==
    IF index + self.ndata = Len(self.data) - 1
    THEN (IF self.data = <<>>
          THEN [err |-> "IndexError", pt |-> None]
          ELSE [err |-> "none", pt |-> At(self.data, -1)])
    ELSE IF ~InRange(self.data, index + self.ndata - 1)
            \/ ~InRange(self.data, index + self.ndata)
    THEN [err |-> "IndexError", pt |-> None]
    ELSE Interp(At(self.data, index + self.ndata - 1),
                At(self.data, index + self.ndata),
                WindowEnd(self, index))

\* rbound: the last sample as it is when index + ndata == len(data),
\* otherwise interp(data[index + ndata - 1], data[index + ndata], window_end)
RBound(self, index) ==
    IF index + self.ndata = Len(self.data)
    THEN (IF self.data = <<>>
          THEN [err |-> "IndexError", pt |-> None]
          ELSE [err |-> "none", pt |-> At(self.data, -1)])
    ELSE IF ~InRange(self.data, index + self.ndata - 1)
            \/ ~InRange(self.data, index + self.ndata)
    THEN [err |-> "IndexError", pt |-> None]
    ELSE Interp(At(self.data, index + self.ndata - 1),
                At(self.data, index + self.ndata),
                WindowEnd(self, index))

\* window_data = [lbound] + self.data[index + 1: index + self.ndata] + [rbound]
WindowData(self, index, lbound, rbound) ==
    <<lbound>> \o Slice(self.data, index + 1, index + self.ndata) \o <<rbound>>

\* A slip: rectangles on the left point instead of trapezoids.
RECURSIVE SumAccLeft(_)
SumAccLeft(window_data) ==
    IF Len(window_data) < 2 THEN FromInt(0)
    ELSE LET a == window_data[1]
             b == window_data[2]
             area == RMul(a.value, FromInt(TotalSeconds(b.datetime - a.datetime)))
         IN  RAdd(area, SumAccLeft(Tail(window_data)))

\* A slip: the sum of the two values, not their mean.
RECURSIVE SumAccNoHalf(_)
SumAccNoHalf(window_data) ==
    IF Len(window_data) < 2 THEN FromInt(0)
    ELSE LET a == window_data[1]
             b == window_data[2]
             area == RMul(RAdd(a.value, b.value),
                          FromInt(TotalSeconds(b.datetime - a.datetime)))
         IN  RAdd(area, SumAccNoHalf(Tail(window_data)))

\* sum(acc): the trapezoids between consecutive points of window_data
RECURSIVE SumAcc(_)
SumAcc(window_data) ==
    IF Len(window_data) < 2 THEN FromInt(0)
    ELSE LET a == window_data[1]
             b == window_data[2]
             area == RMul(RMul(Half, RAdd(a.value, b.value)),
                          FromInt(TotalSeconds(b.datetime - a.datetime)))
         IN  RAdd(area, SumAcc(Tail(window_data)))

\* CarbonIntensityAverageEstimate: the fields in the dataclass's order
Window(value, start, end, start_value, end_value) ==
    [value |-> value, start |-> start, end |-> end,
     start_value |-> start_value, end_value |-> end_value]

\* The guard of __getitem__: the index is refused.
IndexRefused(self, index) == index >= WindowCount(self)

\* WindowedForecast.__getitem__(index): [err, val]
GetItem(self, index) ==
    IF IndexRefused(self, index)
    THEN [err |-> "IndexError: Window index out of range", val |-> None]
    ELSE
    LET window_start == WindowStart(self, index)
        window_end == WindowEnd(self, index)
        lb == LBound(self, index)
    IN  IF lb.err # "none" THEN [err |-> lb.err, val |-> None]
        ELSE
        LET rb == RBound(self, index)
        IN  IF rb.err # "none" THEN [err |-> rb.err, val |-> None]
            ELSE
            LET window_data == WindowData(self, index, lb.pt, rb.pt)
                duration == window_data[Len(window_data)].datetime
                                - window_data[1].datetime
            IN  IF TotalSeconds(duration) = 0
                THEN [err |-> "ZeroDivisionError", val |-> None]
                ELSE [err |-> "none",
                      val |-> Window(RDiv(SumAcc(window_data),
                                          FromInt(TotalSeconds(duration))),
                                     window_start, window_end,
                                     lb.pt.value, rb.pt.value)]

\* ------------------------------------------------- __iter__ and min()
\* __iter__: self[index] for index in range(len(self)), up to the first
\* one that raises.
Windows(self) == [i \in 1..WindowCount(self) |-> GetItem(self, i - 1)]

\* A slip: an ordering on the value alone, ties included.
LexLessOrTied(a, b) == RLeq(a.value, b.value)

\* The dataclass's __lt__ (order=True): the tuples of the fields, compared
\* lexicographically in their order of declaration.
LexLess(a, b) ==
    \/ RLess(a.value, b.value)
    \/ /\ a.value = b.value
       /\ \/ a.start < b.start
          \/ /\ a.start = b.start
             /\ \/ a.end < b.end
                \/ /\ a.end = b.end
                   /\ \/ RLess(a.start_value, b.start_value)
                      \/ /\ a.start_value = b.start_value
                         /\ RLess(a.end_value, b.end_value)

\* min(iterable): the first item is kept until a later one is less.
RECURSIVE MinFrom(_, _, _)
MinFrom(best, ws, k) ==
    IF k > Len(ws) THEN [err |-> "none", val |-> best]
    ELSE IF ws[k].err # "none" THEN [err |-> ws[k].err, val |-> None]
    ELSE MinFrom(IF LexLess(ws[k].val, best) THEN ws[k].val ELSE best, ws, k + 1)

\* A slip: an empty range answered with a window of value 0 at the start.
BestWindowOrZero(self) ==
    LET ws == Windows(self)
    IN  IF Len(ws) = 0
        THEN [err |-> "none",
              val |-> Window(FromInt(0), self.start, self.end,
                             FromInt(0), FromInt(0))]
        ELSE IF ws[1].err # "none" THEN [err |-> ws[1].err, val |-> None]
        ELSE MinFrom(ws[1].val, ws, 2)

\* best_window = min(windowed)
BestWindow(self) ==
    LET ws == Windows(self)
    IN  IF Len(ws) = 0
        THEN [err |-> "ValueError: min() arg is an empty sequence", val |-> None]
        ELSE IF ws[1].err # "none" THEN [err |-> ws[1].err, val |-> None]
        ELSE MinFrom(ws[1].val, ws, 2)

\* ------------------------------------------------------------- inputs
\* A forecast: n samples, the first at minute 1, step minutes apart.
Forecast(n, step, values) ==
    [k \in 1..n |-> Point(FromInt(values[k]), 1 + (k - 1) * step)]

Args(data, duration, start, max_window_minutes, end_constraint) ==
    [data |-> data, duration |-> duration, start |-> start,
     max_window_minutes |-> max_window_minutes,
     end_constraint |-> end_constraint]

\* Every forecast of up to MaxSamples samples with values in 0..MaxValue.
Forecasts ==
    UNION {{Forecast(n, step, values) :
                values \in [1..n -> 0..MaxValue], step \in 1..MaxStep} :
           n \in 1..MaxSamples}

\* The flat forecasts and the sawtooth ones. Neither the truncation nor
\* __len__ reads a sample's value, so the configurations with a lookahead
\* cap or a deadline are explored over these.
PlainForecasts ==
    UNION {{Forecast(n, step, [k \in 1..n |-> v]) :
                v \in 0..MaxValue, step \in 1..MaxStep}
           \cup {Forecast(n, step, [k \in 1..n |-> (k - 1) % (MaxValue + 1)]) :
                step \in 1..MaxStep} :
           n \in 1..MaxSamples}

Lookaheads == {None} \cup {Some(k) : k \in (-1)..MaxLookahead}
Deadlines == {None} \cup {Some(k) : k \in 0..MaxTime}

UncappedArgs ==
    {Args(data, duration, start, None, None) :
        data \in Forecasts, duration \in 1..MaxDuration, start \in 0..MaxTime}

CappedArgs ==
    {Args(data, duration, start, m, e) :
        data \in PlainForecasts, duration \in 1..MaxDuration,
        start \in 0..MaxTime, m \in Lookaheads, e \in Deadlines}

\* The scenarios of the specification's section 8, in minutes.
ScenarioLine == Args(<<Point(FromInt(100), 0), Point(FromInt(200), 30)>>,
                     15, 0, None, None)
ScenarioThree == Args(<<Point(FromInt(100), 0), Point(FromInt(100), 30),
                        Point(FromInt(300), 60)>>, 30, 0, None, None)

IndexArgs == (-MaxIndex)..MaxIndex

NoResult == [err |-> "none", val |-> None]

\* ------------------------------------------------------ state machine
Init ==
    /\ args \in UncappedArgs \cup CappedArgs \cup {ScenarioLine, ScenarioThree}
    /\ wf = NoObject
    /\ pc = "new"
    /\ op = "none"
    /\ idx = 0
    /\ ret = NoResult
    /\ iters = <<>>
    /\ tracker = NewTracker
    /\ clock = 0
    /\ calls = <<>>
    /\ jobs = <<>>

\* WindowedForecast(data, duration, start, max_window_minutes, end_constraint)
Construct ==
    /\ pc = "new"
    /\ LET r == NewWindowedForecast(args)
       IN  /\ wf' = r.obj
           /\ pc' = IF r.err = "none" THEN "ready" ELSE "failed"
           /\ ret' = [err |-> r.err, val |-> None]
    /\ op' = "init"
    /\ UNCHANGED <<args, idx, iters, jobs, tracker, clock, calls>>

\* len(windowed)
CallLen ==
    /\ pc = "ready"
    /\ op' = "len"
    /\ ret' = [err |-> "none", val |-> [length |-> WindowCount(wf)]]
    /\ idx' = 0
    /\ pc' = "returned"
    /\ UNCHANGED <<args, wf, iters, jobs, tracker, clock, calls>>

\* windowed[i]
CallGetItem ==
    /\ pc = "ready"
    /\ \E i \in IndexArgs :
        /\ idx' = i
        /\ ret' = GetItem(wf, i)
    /\ op' = "getitem"
    /\ pc' = "returned"
    /\ UNCHANGED <<args, wf, iters, jobs, tracker, clock, calls>>

\* min(windowed)
CallMin ==
    /\ pc = "ready"
    /\ op' = "min"
    /\ ret' = BestWindow(wf)
    /\ idx' = 0
    /\ pc' = "returned"
    /\ UNCHANGED <<args, wf, iters, jobs, tracker, clock, calls>>

\* The caller is done with what the call gave it; the object, which no
\* call changed, takes the next call.
Release ==
    /\ pc = "returned"
    /\ pc' = "ready"
    /\ op' = "none"
    /\ idx' = 0
    /\ ret' = NoResult
    /\ UNCHANGED <<args, wf, iters, jobs, tracker, clock, calls>>

Next == Construct \/ CallLen \/ CallGetItem \/ CallMin \/ Release

Spec == Init /\ [][Next]_vars

\* ----------------------------------------------------- two iterators
\* The generator objects that iter(windowed) hands out.
Iterators == 1..2

\* A generator of __iter__: not yet made ("none"), made and not yet
\* advanced ("created"), inside the for loop ("running"), or finished
\* ("done"). n is range(len(self)) as evaluated when the loop was entered,
\* i the index the loop is at, yielded the windows the caller received.
NoIterator == [state |-> "none", n |-> 0, i |-> 0, yielded |-> <<>>]

\* The flat and sawtooth forecasts, without a cap or under the longest
\* lookahead cap.
IterArgs ==
    {Args(data, duration, start, m, None) :
        data \in PlainForecasts, duration \in 1..MaxDuration,
        start \in 0..MaxStep, m \in {None, Some(MaxLookahead)}}

IterInit ==
    /\ args \in IterArgs \cup {ScenarioThree}
    /\ wf = NoObject
    /\ pc = "new"
    /\ op = "none"
    /\ idx = 0
    /\ ret = NoResult
    /\ iters = [k \in Iterators |-> NoIterator]
    /\ tracker = NewTracker
    /\ clock = 0
    /\ calls = <<>>
    /\ jobs = <<>>

\* it = iter(windowed): calling the generator function runs none of its
\* body.
CallIter(k) ==
    /\ pc = "ready"
    /\ iters[k].state = "none"
    /\ iters' = [iters EXCEPT ![k].state = "created"]
    /\ op' = "iter"
    /\ idx' = 0
    /\ ret' = NoResult
    /\ pc' = "returned"
    /\ UNCHANGED <<args, wf, jobs, tracker, clock, calls>>

\* A slip: one cursor, kept with the first generator, that all the
\* generators advance.
CallNextShared(k) ==
    /\ pc = "ready"
    /\ iters[k].state \in {"created", "running", "done"}
    /\ LET it == iters[k]
           n == IF it.state = "created" THEN WindowCount(wf) ELSE it.n
           i == iters[1].i
           r == GetItem(wf, i)
       IN  IF it.state = "done" \/ i >= n
           THEN /\ iters' = [iters EXCEPT ![k].state = "done", ![k].n = n]
                /\ ret' = [err |-> "StopIteration", val |-> None]
           ELSE IF r.err # "none"
           THEN /\ iters' = [iters EXCEPT ![k].state = "done", ![k].n = n]
                /\ ret' = r
           ELSE /\ iters' = [iters EXCEPT ![k].state = "running", ![k].n = n,
                                          ![1].i = i + 1,
                                          ![k].yielded = Append(@, r.val)]
                /\ ret' = r
    /\ op' = "next"
    /\ idx' = 0
    /\ pc' = "returned"
    /\ UNCHANGED <<args, wf, jobs, tracker, clock, calls>>

\* next(it): the first call enters the loop and evaluates range(len(self));
\* every call yields self[index] for the next index of the range, raises
\* what self[index] raises, or raises StopIteration once the range is
\* used up or the generator has finished. No field of self is assigned.
CallNext(k) ==
    /\ pc = "ready"
    /\ iters[k].state \in {"created", "running", "done"}
    /\ LET it == iters[k]
           n == IF it.state = "created" THEN WindowCount(wf) ELSE it.n
           i == it.i
           r == GetItem(wf, i)
       IN  IF it.state = "done" \/ i >= n
           THEN /\ iters' = [iters EXCEPT ![k].state = "done", ![k].n = n]
                /\ ret' = [err |-> "StopIteration", val |-> None]
           ELSE IF r.err # "none"
           THEN /\ iters' = [iters EXCEPT ![k].state = "done", ![k].n = n]
                /\ ret' = r
           ELSE /\ iters' = [iters EXCEPT ![k].state = "running", ![k].n = n,
                                          ![k].i = i + 1,
                                          ![k].yielded = Append(@, r.val)]
                /\ ret' = r
    /\ op' = "next"
    /\ idx' = 0
    /\ pc' = "returned"
    /\ UNCHANGED <<args, wf, jobs, tracker, clock, calls>>

IterNext ==
    \/ Construct
    \/ CallLen
    \/ CallGetItem
    \/ \E k \in Iterators : CallIter(k)
    \/ \E k \in Iterators : CallNext(k)
    \/ Release

IterSpec == IterInit /\ [][IterNext]_vars

\* ==================================================================
\* The scheduling layer: src/core/forecast.py, src/core/job_queue.py,
\* src/core/carbon_scheduler.py, src/core/emissions_tracker.py and
\* src/cats/carbonFootprint.py
\* ==================================================================
\* ------------------------------------------------------------- bounds
MaxJobs == 2
MaxWindowHours == 1

\* ------------------------------------------- generate_mock_forecast
\* timedelta(minutes=30 * i): the spacing of the mock forecast's points
MockStep == 30

\* max(20, intensity): the least value of a mock forecast's point
MockFloor == 20

\* start_time: the current time with its minute put back to 0 or to 30
HalfHourBefore(now) == (now \div MockStep) * MockStep

\* generate_mock_forecast(hours=hours): hours * 2 points, MockStep apart
\* from start_time, whose values are what the random noise makes them.
MockForecast(now, hours, values) ==
    [i \in 1..(hours * 2) |->
        Point(FromInt(values[i]), HalfHourBefore(now) + MockStep * (i - 1))]

\* A forecast of one value, but for a lower one at point p (none if p = 0).
Dip(n, p) == [i \in 1..n |-> IF i = p THEN MockFloor ELSE MockFloor + MaxValue]

\* A forecast of one value, but for a higher one at point p.
Peak(n, p) == [i \in 1..n |-> IF i = p THEN MockFloor + MaxValue ELSE MockFloor]

\* The mock forecasts explored: the flat ones, those with one dip and
\* those with one peak.
MockForecasts(now, hours) ==
    {MockForecast(now, hours, Dip(hours * 2, p)) : p \in 0..(hours * 2)}
    \cup {MockForecast(now, hours, Peak(hours * 2, p)) : p \in 0..(hours * 2)}

\* Those with the dip at the first point and at the last one: the minimum
\* window is the first, or a later one.
SearchForecasts(now, hours) ==
    {MockForecast(now, hours, Dip(hours * 2, p)) : p \in {1, hours * 2}}

\* ------------------------ WindowedForecast of src/core/forecast.py
\* WindowedForecast.__init__(data, duration, start, max_window_minutes)
CoreWindowedForecast(data, duration, start, max_window_minutes) ==
    LET data_stepsize ==
            IF Len(data) >= 2 THEN data[2].datetime - data[1].datetime
            ELSE MockStep
        filtered_data ==
            SelectSeq(data, LAMBDA d : d.datetime >= start - data_stepsize)
    IN  [duration |-> duration,
         max_window_minutes |-> OrDefault(max_window_minutes),
         data_stepsize |-> data_stepsize,
         start |-> start,
         end |-> start + duration,
         data |-> IF filtered_data # <<>> THEN filtered_data ELSE data,
         ndata |-> Max2(1, IntQuotient(duration, data_stepsize) + 1)]

\* A slip: the count of windows is not raised to 1.
CoreLenNoFloor(self) ==
    LET max_windows == Len(self.data) - self.ndata + 1
        max_by_window == IntQuotient(self.max_window_minutes, self.data_stepsize)
    IN  IF self.max_window_minutes # 0
        THEN Min2(max_windows, max_by_window)
        ELSE max_windows

\* WindowedForecast.__len__
CoreLen(self) ==
    LET max_windows == Len(self.data) - self.ndata + 1
        max_by_window == IntQuotient(self.max_window_minutes, self.data_stepsize)
    IN  Max2(1, IF self.max_window_minutes # 0
                THEN Min2(max_windows, max_by_window)
                ELSE max_windows)

\* sum(d.value for d in window_data)
RECURSIVE SumValues(_)
SumValues(window_data) ==
    IF window_data = <<>> THEN FromInt(0)
    ELSE RAdd(Head(window_data).value, SumValues(Tail(window_data)))

\* A slip: the ndata samples from the index on, whichever lie in the
\* window.
CoreGetItemNearest(self, index) ==
    IF index >= CoreLen(self)
    THEN [err |-> "IndexError: Window index out of range", val |-> None]
    ELSE
    LET window_start == self.start + index * self.data_stepsize
        window_end == window_start + self.duration
        Averaged(window_data) ==
            IF window_data = <<>>
            THEN [err |-> "none",
                  val |-> Window(FromInt(0), window_start, window_end,
                                 FromInt(0), FromInt(0))]
            ELSE [err |-> "none",
                  val |-> Window(RDiv(SumValues(window_data),
                                      FromInt(Len(window_data))),
                                 window_start, window_end,
                                 window_data[1].value,
                                 window_data[Len(window_data)].value)]
    IN  Assigned({Averaged(v) :
                  v \in {Slice(self.data, index, index + self.ndata)}})

\* WindowedForecast.__getitem__(index): [err, val]
CoreGetItem(self, index) ==
    IF index >= CoreLen(self)
    THEN [err |-> "IndexError: Window index out of range", val |-> None]
    ELSE
    LET window_start == self.start + index * self.data_stepsize
        window_end == window_start + self.duration
        inside == SelectSeq(self.data,
                      LAMBDA d : window_start <= d.datetime
                                 /\ d.datetime <= window_end)
        Averaged(window_data) ==
            IF window_data = <<>>
            THEN [err |-> "none",
                  val |-> Window(FromInt(0), window_start, window_end,
                                 FromInt(0), FromInt(0))]
            ELSE [err |-> "none",
                  val |-> Window(RDiv(SumValues(window_data),
                                      FromInt(Len(window_data))),
                                 window_start, window_end,
                                 window_data[1].value,
                                 window_data[Len(window_data)].value)]
    IN  Assigned({Averaged(v) :
                  v \in {IF inside # <<>> THEN inside
                         ELSE Slice(self.data, index, index + self.ndata)}})

\* WindowedForecast.__iter__
CoreWindows(self) == [i \in 1..CoreLen(self) |-> CoreGetItem(self, i - 1)]

\* min(windowed)
CoreMin(self) ==
    LET Least(ws) ==
            IF Len(ws) = 0
            THEN [err |-> "ValueError: min() arg is an empty sequence",
                  val |-> None]
            ELSE IF ws[1].err # "none" THEN [err |-> ws[1].err, val |-> None]
            ELSE MinFrom(ws[1].val, ws, 2)
    IN  Assigned({Least(v) : v \in {CoreWindows(self)}})

\* get_best_start_time(duration_minutes, region, max_window_hours), with
\* the forecast that generate_mock_forecast returns and the current time:
\* [err, val], val being (best_window.start, best_window.value)
GetBestStartTime(duration_minutes, max_window_hours, forecast, current_time) ==
    IF duration_minutes < 1
    THEN [err |-> "ValueError: Duration must be at least 1 minute", val |-> None]
    ELSE IF duration_minutes > max_window_hours * 60
    THEN [err |-> "ValueError: Job duration exceeds window", val |-> None]
    ELSE
    LET Found(best_window) ==
            IF best_window.err # "none"
            THEN [err |-> best_window.err, val |-> None]
            ELSE [err |-> "none",
                  val |-> [start |-> best_window.val.start,
                           value |-> best_window.val.value]]
        Best(windowed) == Assigned({Found(v) : v \in {CoreMin(windowed)}})
    IN  Assigned({Best(v) :
                  v \in {CoreWindowedForecast(forecast, duration_minutes,
                                              current_time,
                                              Some(max_window_hours * 60))}})

\* A slip: the optimum sought among the windows after the first.
GetCurrentVsOptimalLater(duration_minutes, max_window_hours, forecast, current_time) ==
    LET windowed == CoreWindowedForecast(forecast, duration_minutes, current_time,
                                         Some(max_window_hours * 60))
        ws == CoreWindows(windowed)
    IN  [err |-> "none",
         now_window |-> CoreGetItem(windowed, 0).val,
         optimal_window |->
             IF Len(ws) >= 2 THEN MinFrom(ws[2].val, ws, 3).val ELSE ws[1].val]

\* get_current_vs_optimal(duration_minutes, region, max_window_hours):
\* [err, now_window, optimal_window]
GetCurrentVsOptimal(duration_minutes, max_window_hours, forecast, current_time) ==
    LET Both(windowed) ==
            LET Pair(now_window) ==
                    LET Paired(optimal_window) ==
                            IF now_window.err # "none"
                            THEN [err |-> now_window.err, now_window |-> None,
                                  optimal_window |-> None]
                            ELSE IF optimal_window.err # "none"
                            THEN [err |-> optimal_window.err,
                                  now_window |-> None, optimal_window |-> None]
                            ELSE [err |-> "none",
                                  now_window |-> now_window.val,
                                  optimal_window |-> optimal_window.val]
                    IN  Assigned({Paired(v) : v \in {CoreMin(windowed)}})
            IN  Assigned({Pair(v) : v \in {CoreGetItem(windowed, 0)}})
    IN  Assigned({Both(v) :
                  v \in {CoreWindowedForecast(forecast, duration_minutes,
                                              current_time,
                                              Some(max_window_hours * 60))}})

\* ------------------------------------------- emission estimators
\* GPUEmissionsTracker.estimate_emissions
EstimateEmissions(duration_minutes, power_watts, carbon_intensity_g_kwh) ==
    LET power_kw == RDiv(FromInt(power_watts), FromInt(1000))
        duration_h == RDiv(FromInt(duration_minutes), FromInt(60))
        carbon_intensity_kg == RDiv(carbon_intensity_g_kwh, FromInt(1000))
    IN  RMul(RMul(power_kw, duration_h), carbon_intensity_kg)

\* The default of calculate_emissions_for_job: 0.7 kg CO2/kWh
DefaultIntensityKg == Rat(7, 10)

\* A slip: `if not carbon_intensity`, which takes an intensity of 0 for
\* a missing one.
CalculateEmissionsForJobFalsy(job, carbon_intensity) ==
    LET power_kw == RDiv(FromInt(job.power_draw_watts), FromInt(1000))
        duration_h == RDiv(FromInt(job.duration_minutes), FromInt(60))
        intensity == IF carbon_intensity = None \/ carbon_intensity = FromInt(0)
                     THEN DefaultIntensityKg
                     ELSE RDiv(carbon_intensity, FromInt(1000))
    IN  RMul(RMul(power_kw, duration_h), intensity)

\* JobQueue.calculate_emissions_for_job(job, carbon_intensity)
CalculateEmissionsForJob(job, carbon_intensity) ==
    LET power_kw == RDiv(FromInt(job.power_draw_watts), FromInt(1000))
        duration_h == RDiv(FromInt(job.duration_minutes), FromInt(60))
        intensity == IF carbon_intensity = None
                     THEN DefaultIntensityKg
                     ELSE RDiv(carbon_intensity, FromInt(1000))
    IN  RMul(RMul(power_kw, duration_h), intensity)

\* sum([(nunits * power) for nunits, power in jobinfo])
RECURSIVE SumUnits(_)
SumUnits(jobinfo) ==
    IF jobinfo = <<>> THEN FromInt(0)
    ELSE RAdd(RMul(FromInt(Head(jobinfo)[1]), Head(jobinfo)[2]),
              SumUnits(Tail(jobinfo)))

\* A slip: the savings clamped at zero.
GetFootprintReductionEstimateClamped(PUE, jobinfo, runtime_seconds, average_best_ci, average_now_ci) ==
    LET energy == RDiv(RMul(RMul(PUE, RDiv(FromInt(runtime_seconds),
                                           FromInt(3600))),
                            SumUnits(jobinfo)),
                       FromInt(1000))
        best == RMul(energy, average_best_ci)
        now == RMul(energy, average_now_ci)
    IN  [now |-> now, best |-> best,
         savings |-> IF RLess(now, best) THEN FromInt(0) ELSE RSub(now, best)]

\* get_footprint_reduction_estimate(PUE, jobinfo, runtime, average_best_ci,
\* average_now_ci), the runtime in seconds: Estimates(now, best, savings)
GetFootprintReductionEstimate(PUE, jobinfo, runtime_seconds, average_best_ci, average_now_ci) ==
    LET energy == RDiv(RMul(RMul(PUE, RDiv(FromInt(runtime_seconds),
                                           FromInt(3600))),
                            SumUnits(jobinfo)),
                       FromInt(1000))
        best == RMul(energy, average_best_ci)
        now == RMul(energy, average_now_ci)
    IN  [now |-> now, best |-> best, savings |-> RSub(now, best)]

\* ------------------------------------------------------ the job queue
\* GPUJob, the fields that the scheduler reads or writes
GPUJob(job_id, duration_minutes, power_draw_watts, priority, status, carbon_intensity_threshold) ==
    [job_id |-> job_id,
     duration_minutes |-> duration_minutes,
     power_draw_watts |-> power_draw_watts,
     priority |-> priority,
     status |-> status,
     carbon_intensity_threshold |-> carbon_intensity_threshold,
     scheduled_for |-> None,
     completed_at |-> None,
     emissions_kg_co2 |-> FromInt(0)]

\* The position of the first job with that id, 0 when there is none.
FirstWithId(js, job_id) ==
    LET found == {k \in 1..Len(js) : js[k].job_id = job_id}
    IN  IF found = {} THEN 0 ELSE CHOOSE k \in found : \A j \in found : k <= j

\* JobQueue.update_job_status(job_id, new_status): the list afterwards
UpdateJobStatus(js, job_id, new_status, now) ==
    LET k == FirstWithId(js, job_id)
    IN  IF k = 0 THEN js
        ELSE [js EXCEPT ![k].status = new_status,
                        ![k].completed_at =
                            IF new_status = "completed" THEN Some(now) ELSE @]

\* JobQueue.update_job(job_id, **kwargs): the list afterwards
UpdateJob(js, job_id, kwargs) ==
    LET k == FirstWithId(js, job_id)
    IN  IF k = 0 THEN js
        ELSE [js EXCEPT ![k] =
                 [f \in DOMAIN js[k] |->
                     IF f \in DOMAIN kwargs THEN kwargs[f] ELSE js[k][f]]]

\* sorted(pending, key=lambda x: x.priority, reverse=True), as positions
\* in the list: the sort is stable.
RECURSIVE SortedByPriority(_, _)
SortedByPriority(js, positions) ==
    IF positions = {} THEN <<>>
    ELSE LET p == CHOOSE q \in positions :
                      \A r \in positions :
                          \/ js[q].priority > js[r].priority
                          \/ js[q].priority = js[r].priority /\ q <= r
         IN  <<p>> \o SortedByPriority(js, positions \ {p})

\* A slip: the deferred jobs are queued again with the pending ones.
GetPrioritizedQueueWithDeferred(js) ==
    SortedByPriority(js, {k \in 1..Len(js) :
                             js[k].status \in {"pending", "deferred"}})

\* JobQueue.get_prioritized_queue
GetPrioritizedQueue(js) ==
    SortedByPriority(js, {k \in 1..Len(js) : js[k].status = "pending"})

\* ------------------------------------------------------ the scheduler
\* timedelta(hours=6): the delay of the fallback, in minutes
FallbackDelay == 6 * 60

\* The intensity that schedule_pending_jobs takes for the optimum
AssumedOptimal == 200

\* A slip: a job is run when the intensity equals its threshold.
GreenEnoughOrEqual(carbon_intensity, job) ==
    carbon_intensity <= job.carbon_intensity_threshold

\* if carbon_intensity < job.carbon_intensity_threshold
GreenEnough(carbon_intensity, job) ==
    carbon_intensity < job.carbon_intensity_threshold

\* A slip: a failed search swallowed with no start set for the job.
DeferredStartNoFallback(job, forecast, now) ==
    LET found == GetBestStartTime(job.duration_minutes, MaxWindowHours,
                                  forecast, now)
    IN  IF found.err = "none" THEN Some(found.val.start) ELSE None

\* The try statement of the deferred branch: the scheduled_for that it
\* gives the job, the start that get_best_start_time found or, when it
\* raised, the clock plus the fallback delay.
DeferredStart(job, forecast, now) ==
    LET Start(found) == IF found.err = "none" THEN Some(found.val.start)
                        ELSE Some(now + FallbackDelay)
    IN  Assigned({Start(v) :
                  v \in {GetBestStartTime(job.duration_minutes, MaxWindowHours,
                                          forecast, now)}})

\* The for loop of schedule_pending_jobs from the k-th pending job on:
\* [jobs, scheduled_jobs, deferred_jobs], the two lists as positions in
\* the job list. forecasts[k] is what generate_mock_forecast returns to
\* the search for the k-th job.
RECURSIVE PendingLoop(_, _, _, _, _, _, _, _)
PendingLoop(js, pending_jobs, k, carbon_intensity, now, forecasts, scheduled_jobs, deferred_jobs) ==
    IF k > Len(pending_jobs)
    THEN [jobs |-> js, scheduled_jobs |-> scheduled_jobs,
          deferred_jobs |-> deferred_jobs]
    ELSE
    LET job == js[pending_jobs[k]]
        Scheduled(updated) ==
            PendingLoop(updated, pending_jobs, k + 1, carbon_intensity, now,
                        forecasts,
                        Append(scheduled_jobs, pending_jobs[k]), deferred_jobs)
        Deferred(updated) ==
            PendingLoop(updated, pending_jobs, k + 1, carbon_intensity, now,
                        forecasts,
                        scheduled_jobs, Append(deferred_jobs, pending_jobs[k]))
    IN  IF GreenEnough(carbon_intensity, job)
        THEN Assigned({Scheduled(v) :
                 v \in {UpdateJob(UpdateJobStatus(js, job.job_id, "scheduled", now),
                                  job.job_id, [scheduled_for |-> Some(now)])}})
        ELSE Assigned({Deferred(v) :
                 v \in {UpdateJob(UpdateJobStatus(js, job.job_id, "deferred", now),
                                  job.job_id,
                                  [scheduled_for |->
                                       DeferredStart(job, forecasts[k], now)])}})

\* sum(calculate_emissions_for_job(j, carbon_intensity) -
\*     calculate_emissions_for_job(j, 200) for j in deferred_jobs)
RECURSIVE TotalAvoided(_, _, _)
TotalAvoided(js, deferred_jobs, carbon_intensity) ==
    IF deferred_jobs = <<>> THEN FromInt(0)
    ELSE LET j == js[Head(deferred_jobs)]
         IN  RAdd(RSub(CalculateEmissionsForJob(j, FromInt(carbon_intensity)),
                       CalculateEmissionsForJob(j, FromInt(AssumedOptimal))),
                  TotalAvoided(js, Tail(deferred_jobs), carbon_intensity))

\* CarbonAwareScheduler.schedule_pending_jobs: [jobs, result]
SchedulePendingJobsOn(js, carbon_intensity, now, forecasts) ==
    LET Looped(pending_jobs) ==
            PendingLoop(js, pending_jobs, 1, carbon_intensity, now,
                        forecasts, <<>>, <<>>)
        Summary(done) ==
            LET Result(total_avoided) ==
                    [jobs |-> done.jobs,
                     result |->
                        [current_carbon_intensity |-> carbon_intensity,
                         scheduled_count |-> Len(done.scheduled_jobs),
                         deferred_count |-> Len(done.deferred_jobs),
                         estimated_emissions_saved_kg |->
                             IF RLess(total_avoided, FromInt(0)) THEN FromInt(0)
                             ELSE total_avoided,
                         scheduled_jobs |->
                             [i \in 1..Len(done.scheduled_jobs) |->
                                 done.jobs[done.scheduled_jobs[i]]],
                         deferred_jobs |->
                             [i \in 1..Len(done.deferred_jobs) |->
                                 done.jobs[done.deferred_jobs[i]]]]]
            IN  Assigned({Result(v) :
                          v \in {TotalAvoided(done.jobs, done.deferred_jobs,
                                              carbon_intensity)}})
    IN  Assigned({Summary(v) :
                  v \in {Assigned({Looped(q) : q \in {GetPrioritizedQueue(js)}})}})

\* A slip: the savings as a share of the optimal emissions, with no test
\* of the divisor's sign.
EstimateSavingsOfOptimal(job, now_value, optimal_value) ==
    LET power_kw == RDiv(FromInt(job.power_draw_watts), FromInt(1000))
        duration_h == RDiv(FromInt(job.duration_minutes), FromInt(60))
        emissions_now == RMul(RMul(power_kw, duration_h),
                              RDiv(now_value, FromInt(1000)))
        emissions_optimal == RMul(RMul(power_kw, duration_h),
                                  RDiv(optimal_value, FromInt(1000)))
        savings_kg == RSub(emissions_now, emissions_optimal)
    IN  [emissions_now |-> emissions_now,
         emissions_optimal |-> emissions_optimal,
         savings_kg |-> savings_kg,
         savings_percent |->
             IF emissions_optimal # FromInt(0)
             THEN RMul(RDiv(savings_kg, emissions_optimal), FromInt(100))
             ELSE FromInt(0)]

\* The emissions and savings of schedule_single_job, from the two
\* windows' values.
EstimateSavings(job, now_value, optimal_value) ==
    LET power_kw == RDiv(FromInt(job.power_draw_watts), FromInt(1000))
        duration_h == RDiv(FromInt(job.duration_minutes), FromInt(60))
        emissions_now == RMul(RMul(power_kw, duration_h),
                              RDiv(now_value, FromInt(1000)))
        emissions_optimal == RMul(RMul(power_kw, duration_h),
                                  RDiv(optimal_value, FromInt(1000)))
        savings_kg == RSub(emissions_now, emissions_optimal)
    IN  [emissions_now |-> emissions_now,
         emissions_optimal |-> emissions_optimal,
         savings_kg |-> savings_kg,
         savings_percent |->
             IF RLess(FromInt(0), emissions_now)
             THEN RMul(RDiv(savings_kg, emissions_now), FromInt(100))
             ELSE FromInt(0)]

\* CarbonAwareScheduler.schedule_single_job(job): [err, jobs, result]
ScheduleSingleJobOn(js, job, forecast, now) ==
    LET Scheduled(pair) ==
            IF pair.err # "none"
            THEN [err |-> pair.err, jobs |-> js, result |-> None]
            ELSE
            LET Result(e) ==
                    [err |-> "none",
                     jobs |-> UpdateJob(js, job.job_id,
                                  [scheduled_for |->
                                       Some(pair.optimal_window.start),
                                   status |-> "scheduled"]),
                     result |->
                        [job_id |-> job.job_id,
                         duration_minutes |-> job.duration_minutes,
                         ci_now |-> pair.now_window.value,
                         emissions_now_g |->
                             RMul(e.emissions_now, FromInt(1000)),
                         optimal_time |-> pair.optimal_window.start,
                         ci_optimal |-> pair.optimal_window.value,
                         emissions_optimal_g |->
                             RMul(e.emissions_optimal, FromInt(1000)),
                         savings_g |-> RMul(e.savings_kg, FromInt(1000)),
                         savings_percent |-> e.savings_percent,
                         delay_hours |->
                             Rat(pair.optimal_window.start - now, 60)]]
            IN  Assigned({Result(v) :
                          v \in {EstimateSavings(job, pair.now_window.value,
                                                 pair.optimal_window.value)}})
    IN  Assigned({Scheduled(v) :
                  v \in {GetCurrentVsOptimal(job.duration_minutes,
                                             MaxWindowHours, forecast, now)}})

\* ------------------------------------------------------------- inputs
Priorities == {1, 2}
Thresholds == {200, 300}
Intensities == {200, 300}
JobDurations == {0, 45}
Clocks == {0, 15}

\* The GPU power draw that the submission form proposes, in watts
PowerDrawWatts == 300

\* The jobs of a queue: the pending ones, and one that was scheduled and
\* one that was completed before.
QueuedJobs(job_id) ==
    {GPUJob(job_id, d, PowerDrawWatts, p, "pending", t) :
        d \in JobDurations, p \in Priorities, t \in Thresholds}
    \cup {GPUJob(job_id, 45, PowerDrawWatts, 1, s, 200) :
             s \in {"scheduled", "completed"}}

\* The job lists of up to MaxJobs jobs, their ids all different or, in a
\* list of two, both the same.
JobLists ==
    UNION {{js \in [1..n -> UNION {QueuedJobs(k) : k \in 1..n}] :
               \/ \A k \in 1..n : js[k].job_id = k
               \/ n = 2 /\ \A k \in 1..n : js[k].job_id = 1} :
           n \in 0..MaxJobs}

\* ------------------------------------------------------ state machine
SchedInit ==
    /\ jobs \in JobLists
    /\ args = None
    /\ wf = NoObject
    /\ pc = "idle"
    /\ op = "none"
    /\ idx = 0
    /\ ret = NoResult
    /\ iters = <<>>
    /\ tracker = NewTracker
    /\ clock = 0
    /\ calls = <<>>

\* scheduler.schedule_pending_jobs(region): the grid's intensity, the
\* clock and the mock forecasts are what the call finds.
SchedulePendingJobs ==
    /\ pc = "idle"
    /\ \E carbon_intensity \in Intensities, now \in Clocks :
       \E forecasts \in [1..Len(GetPrioritizedQueue(jobs)) ->
                             SearchForecasts(now, MaxWindowHours + 2)] :
       \E r \in {SchedulePendingJobsOn(jobs, carbon_intensity, now, forecasts)} :
          /\ jobs' = r.jobs
          /\ ret' = [err |-> "none", val |-> r.result]
          /\ args' = [carbon_intensity |-> carbon_intensity, now |-> now]
    /\ op' = "schedule_pending_jobs"
    /\ pc' = "returned"
    /\ UNCHANGED <<wf, idx, iters, tracker, clock, calls>>

\* scheduler.schedule_single_job(job) for the job that add_job appended
\* last, as the submission form calls it
ScheduleSingleJob ==
    /\ pc = "idle"
    /\ jobs # <<>>
    /\ \E now \in Clocks :
       \E forecast \in MockForecasts(now, MaxWindowHours + 2) :
       \E job \in {jobs[Len(jobs)]} :
       \E r \in {ScheduleSingleJobOn(jobs, job, forecast, now)} :
          /\ jobs' = r.jobs
          /\ ret' = [err |-> r.err, val |-> r.result]
          /\ args' = [job |-> job, forecast |-> forecast, now |-> now]
    /\ op' = "schedule_single_job"
    /\ pc' = "returned"
    /\ UNCHANGED <<wf, idx, iters, tracker, clock, calls>>

SchedNext == SchedulePendingJobs \/ ScheduleSingleJob

SchedSpec == SchedInit /\ [][SchedNext]_vars

\* ------------------------------------------- the estimators, called
\* The arguments of the emission estimators: watts, minutes, gCO2/kWh.
\* The last is the example of the specification's section 4.3.
EmissionArgs ==
    {[kind |-> "emissions", power_watts |-> p, duration_minutes |-> d,
      carbon_intensity |-> FromInt(i)] :
        p \in {0, 100, 300}, d \in {0, 45, 60}, i \in {0, 200, 700}}

ScenarioEmissions ==
    [kind |-> "emissions", power_watts |-> 300, duration_minutes |-> 60,
     carbon_intensity |-> FromInt(200)]

\* The arguments of get_footprint_reduction_estimate.
FootprintArgs ==
    {[kind |-> "footprint", PUE |-> pue, jobinfo |-> jobinfo,
      runtime_seconds |-> r, average_best_ci |-> FromInt(b),
      average_now_ci |-> FromInt(n)] :
        pue \in {FromInt(1), Rat(3, 2)},
        jobinfo \in {<<>>, <<<<1, FromInt(100)>>>>,
                     <<<<2, FromInt(100)>>, <<1, Rat(101, 2)>>>>},
        r \in {0, 1800, 3600},
        b \in {0, 100, 200}, n \in {0, 100, 200}}

\* The job that carries the arguments of an emission estimator.
JobOf(a) ==
    GPUJob(1, a.duration_minutes, a.power_watts, 1, "pending", 400)

EstimateInit ==
    /\ args \in EmissionArgs \cup {ScenarioEmissions} \cup FootprintArgs
    /\ jobs = <<>>
    /\ wf = NoObject
    /\ pc = "idle"
    /\ op = "none"
    /\ idx = 0
    /\ ret = NoResult
    /\ iters = <<>>
    /\ tracker = NewTracker
    /\ clock = 0
    /\ calls = <<>>

\* tracker.estimate_emissions(duration_minutes, power_watts, intensity)
CallEstimateEmissions ==
    /\ pc = "idle"
    /\ args.kind = "emissions"
    /\ ret' = [err |-> "none",
               val |-> EstimateEmissions(args.duration_minutes,
                                         args.power_watts,
                                         args.carbon_intensity)]
    /\ op' = "estimate_emissions"
    /\ pc' = "returned"
    /\ UNCHANGED <<args, jobs, wf, idx, iters, tracker, clock, calls>>

\* job_queue.calculate_emissions_for_job(job, carbon_intensity)
CallCalculateEmissionsForJob ==
    /\ pc = "idle"
    /\ args.kind = "emissions"
    /\ ret' = [err |-> "none",
               val |-> CalculateEmissionsForJob(JobOf(args),
                                                args.carbon_intensity)]
    /\ op' = "calculate_emissions_for_job"
    /\ pc' = "returned"
    /\ UNCHANGED <<args, jobs, wf, idx, iters, tracker, clock, calls>>

\* emissions_now of schedule_single_job, for a window of that intensity
InlineEmissions ==
    /\ pc = "idle"
    /\ args.kind = "emissions"
    /\ ret' = [err |-> "none",
               val |-> EstimateSavings(JobOf(args), args.carbon_intensity,
                                       args.carbon_intensity).emissions_now]
    /\ op' = "emissions_now"
    /\ pc' = "returned"
    /\ UNCHANGED <<args, jobs, wf, idx, iters, tracker, clock, calls>>

\* get_footprint_reduction_estimate(PUE, jobinfo, runtime, best, now)
CallGetFootprintReductionEstimate ==
    /\ pc = "idle"
    /\ args.kind = "footprint"
    /\ ret' = [err |-> "none",
               val |-> GetFootprintReductionEstimate(
                           args.PUE, args.jobinfo, args.runtime_seconds,
                           args.average_best_ci, args.average_now_ci)]
    /\ op' = "get_footprint_reduction_estimate"
    /\ pc' = "returned"
    /\ UNCHANGED <<args, jobs, wf, idx, iters, tracker, clock, calls>>

EstimateNext ==
    \/ CallEstimateEmissions
    \/ CallCalculateEmissionsForJob
    \/ InlineEmissions
    \/ CallGetFootprintReductionEstimate

EstimateSpec == EstimateInit /\ [][EstimateNext]_vars

\* ------------------------------------- the simplified averager, called
\* The arguments of the WindowedForecast of src/core/forecast.py: no
\* sample, or the forecasts of the interpolating averager; a lookahead
\* cap that is absent, 0 or positive.
CoreArgs ==
    {[kind |-> "windowed", data |-> data, duration |-> duration,
      start |-> start, max_window_minutes |-> None] :
        data \in Forecasts \cup {<<>>}, duration \in 0..MaxDuration,
        start \in 0..MaxTime}
    \cup
    {[kind |-> "windowed", data |-> data, duration |-> duration,
      start |-> start, max_window_minutes |-> Some(m)] :
        data \in PlainForecasts \cup {<<>>}, duration \in 0..MaxDuration,
        start \in 0..MaxTime, m \in 0..MaxLookahead}

\* The durations asked of get_best_start_time: none, a minute, less than
\* the lookahead, the lookahead and a minute more.
SearchDurations(max_window_hours) ==
    {0, 1, 45, max_window_hours * 60, max_window_hours * 60 + 1}

\* The arguments of get_best_start_time, with the forecast that
\* generate_mock_forecast gives it and the clock it reads.
SearchArgs ==
    UNION {{[kind |-> "search", duration_minutes |-> d,
             max_window_hours |-> h, forecast |-> forecast,
             current_time |-> now] :
                d \in SearchDurations(h),
                forecast \in MockForecasts(now, h + 2)} :
           h \in 0..MaxWindowHours, now \in Clocks}

CoreInit ==
    /\ args \in CoreArgs \cup SearchArgs
    /\ wf = NoObject
    /\ pc = "new"
    /\ op = "none"
    /\ idx = 0
    /\ ret = NoResult
    /\ iters = <<>>
    /\ tracker = NewTracker
    /\ clock = 0
    /\ calls = <<>>
    /\ jobs = <<>>

\* WindowedForecast(data, duration, start, max_window_minutes)
CoreConstruct ==
    /\ pc = "new"
    /\ args.kind = "windowed"
    /\ wf' = CoreWindowedForecast(args.data, args.duration, args.start,
                                  args.max_window_minutes)
    /\ op' = "init"
    /\ pc' = "ready"
    /\ UNCHANGED <<args, idx, ret, iters, jobs, tracker, clock, calls>>

\* len(windowed)
CoreCallLen ==
    /\ pc = "ready"
    /\ op' = "len"
    /\ ret' = [err |-> "none", val |-> [length |-> CoreLen(wf)]]
    /\ idx' = 0
    /\ pc' = "returned"
    /\ UNCHANGED <<args, wf, iters, jobs, tracker, clock, calls>>

\* windowed[i]
CoreCallGetItem ==
    /\ pc = "ready"
    /\ \E i \in 0..MaxIndex :
        /\ idx' = i
        /\ ret' = CoreGetItem(wf, i)
    /\ op' = "getitem"
    /\ pc' = "returned"
    /\ UNCHANGED <<args, wf, iters, jobs, tracker, clock, calls>>

\* min(windowed)
CoreCallMin ==
    /\ pc = "ready"
    /\ op' = "min"
    /\ ret' = CoreMin(wf)
    /\ idx' = 0
    /\ pc' = "returned"
    /\ UNCHANGED <<args, wf, iters, jobs, tracker, clock, calls>>

\* get_best_start_time(duration_minutes, region, max_window_hours)
CallGetBestStartTime ==
    /\ pc = "new"
    /\ args.kind = "search"
    /\ ret' = GetBestStartTime(args.duration_minutes, args.max_window_hours,
                               args.forecast, args.current_time)
    /\ op' = "get_best_start_time"
    /\ pc' = "done"
    /\ UNCHANGED <<args, wf, idx, iters, jobs, tracker, clock, calls>>

CoreNext ==
    \/ CoreConstruct
    \/ CoreCallLen
    \/ CoreCallGetItem
    \/ CoreCallMin
    \/ CallGetBestStartTime
    \/ Release

CoreSpec == CoreInit /\ [][CoreNext]_vars

\* ------------------------------------------- the scheduler, shared
\* The module-level scheduler of carbon_scheduler.py serves every session
\* of the application. Its calls to schedule jobs are taken whole; a
\* run_scheduled_job call goes by the steps between which another thread
\* can run: the look-up and status test, the status update, the start of
\* the tracker, the sleep, the stop of the tracker, the last update. Each
\* call of the tracker is taken whole.

\* How many times the clock moves on, MockStep minutes at a time
MaxTicks == 1

\* The threads that call run_scheduled_job: two sessions
Threads == {1, 2}

\* The name that the job of an id is given
NameOf(job_id) == IF job_id % 2 = 1 THEN "train" ELSE "tune"

\* A carbon threshold that the submission form's slider offers
SliderThreshold == 300

\* What tracker.stop() measures, in kg
Emissions == {1}

\* A thread that is not in run_scheduled_job
NoCall ==
    [pc |-> "idle", job_id |-> 0, job |-> 0, emissions_record |-> None,
     result |-> None]

\* The mock forecasts with the dip at the first point and at the third:
\* the minimum window starts now, or a step later.
RunForecasts(now) ==
    {MockForecast(now, MaxWindowHours + 2, Dip((MaxWindowHours + 2) * 2, p)) :
        p \in {1, 3}}

\* A job as add_job receives it: pending, with a name.
NewJob(job_id, name, threshold) ==
    [f \in DOMAIN GPUJob(job_id, 45, PowerDrawWatts, 1, "pending", threshold)
              \cup {"name"} |->
        IF f = "name" THEN name
        ELSE GPUJob(job_id, 45, PowerDrawWatts, 1, "pending", threshold)[f]]

\* The queues of new jobs, of ids 1, 2, ...: a job for each session at most
NewJobLists ==
    {[k \in 1..n |-> NewJob(k, NameOf(k), SliderThreshold)] :
        n \in 0..Cardinality(Threads)}

\* {}: what stop_tracking returns when nothing is tracked
EmptyRecord == [empty |-> TRUE]

\* record.get(key, 0)
GetOrZero(record, key) ==
    IF key \in DOMAIN record THEN record[key] ELSE 0

\* GPUEmissionsTracker.stop_tracking: [tracker, record]. The record's
\* timestamp and country, which nothing reads, are left out.
StopTracking(t, now, emissions) ==
    IF t.tracker = None \/ t.start_time = None
    THEN [tracker |-> t, record |-> EmptyRecord]
    ELSE LET record == [job_name |-> t.current_job,
                        emissions_kg_co2 |-> emissions,
                        duration_seconds |-> TotalSeconds(now - t.start_time.v)]
         IN  [tracker |-> [tracker |-> None, current_job |-> None,
                           start_time |-> None,
                           emissions_log |-> Append(t.emissions_log, record)],
              record |-> record]

\* GPUEmissionsTracker.start_tracking(job_name)
StartTracking(t, job_name, now) ==
    [t EXCEPT !.tracker = Some(1), !.current_job = Some(job_name),
              !.start_time = Some(now)]

\* A slip: a job that is pending is run as well.
RunnableOrPending(js, k) ==
    js[k].status \in {"scheduled", "pending"}

\* if job.status != JobStatus.SCHEDULED.value: return {'error': ...}
Runnable(js, k) == js[k].status = "scheduled"

RunInit ==
    /\ jobs \in NewJobLists
    /\ tracker = NewTracker
    /\ clock = 0
    /\ calls = [t \in Threads |-> NoCall]
    /\ args = None
    /\ wf = NoObject
    /\ pc = "idle"
    /\ op = "none"
    /\ idx = 0
    /\ ret = NoResult
    /\ iters = <<>>

\* Time passes.
Tick ==
    /\ clock < MaxTicks * MockStep
    /\ clock' = clock + MockStep
    /\ UNCHANGED <<args, wf, pc, op, idx, ret, iters, jobs, tracker, calls>>

\* scheduler.schedule_pending_jobs(region), at the clock's time; what it
\* returns is not kept, so that a call with no pending job changes nothing.
SchedulePendingJobsNow ==
    /\ GetPrioritizedQueue(jobs) # <<>>
    /\ \E carbon_intensity \in Intensities :
       \E forecasts \in [1..Len(GetPrioritizedQueue(jobs)) ->
                             RunForecasts(clock)] :
       \E r \in {SchedulePendingJobsOn(jobs, carbon_intensity, clock, forecasts)} :
          jobs' = r.jobs
    /\ UNCHANGED <<args, wf, pc, op, idx, ret, iters, tracker, clock, calls>>

\* scheduler.schedule_single_job(job) for a job that waits, at the
\* clock's time; what it returns is not kept.
ScheduleSingleJobNow ==
    /\ \E k \in 1..Len(jobs) :
          /\ jobs[k].status \in {"pending", "deferred"}
          /\ \E forecast \in RunForecasts(clock) :
             \E r \in {ScheduleSingleJobOn(jobs, jobs[k], forecast, clock)} :
                jobs' = r.jobs
    /\ UNCHANGED <<args, wf, pc, op, idx, ret, iters, tracker, clock, calls>>

\* job_queue.update_job_status(job_id, new_status), called directly to
\* complete or to cancel a job that waits
CallUpdateJobStatus ==
    /\ \E k \in 1..Len(jobs), new_status \in {"completed", "cancelled"} :
          /\ jobs[k].status \in {"pending", "scheduled", "deferred"}
          /\ jobs' = UpdateJobStatus(jobs, jobs[k].job_id, new_status, clock)
    /\ UNCHANGED <<args, wf, pc, op, idx, ret, iters, tracker, clock, calls>>

\* run_scheduled_job(job_id), lines 164-170: the job is looked up and its
\* status tested. The ids tried are those of the queue and one more. The
\* threads are alike: they are numbered in the order of their calls.
RunCheck(t) ==
    /\ calls[t].pc = "idle"
    /\ \A u \in Threads : u < t => calls[u].pc # "idle"
    /\ \E job_id \in 1..(Len(jobs) + 1) :
       \E k \in {FirstWithId(jobs, job_id)} :
          calls' = [calls EXCEPT ![t] =
              IF k = 0
              THEN [NoCall EXCEPT !.pc = "done", !.job_id = job_id,
                                  !.result = [error |-> "Job not found"]]
              ELSE IF ~Runnable(jobs, k)
              THEN [NoCall EXCEPT !.pc = "done", !.job_id = job_id, !.job = k,
                                  !.result = [error |-> "Job is not scheduled",
                                              status |-> jobs[k].status]]
              ELSE [NoCall EXCEPT !.pc = "checked", !.job_id = job_id,
                                  !.job = k]]
    /\ UNCHANGED <<args, wf, pc, op, idx, ret, iters, jobs, tracker, clock>>

\* line 173: update_job_status(job_id, RUNNING)
RunSetRunning(t) ==
    /\ calls[t].pc = "checked"
    /\ jobs' = UpdateJobStatus(jobs, calls[t].job_id, "running", clock)
    /\ calls' = [calls EXCEPT ![t].pc = "running"]
    /\ UNCHANGED <<args, wf, pc, op, idx, ret, iters, tracker, clock>>

\* line 176: emissions_tracker.start_tracking(job.name)
RunStartTracking(t) ==
    /\ calls[t].pc = "running"
    /\ tracker' = StartTracking(tracker, jobs[calls[t].job].name, clock)
    /\ calls' = [calls EXCEPT ![t].pc = "tracking"]
    /\ UNCHANGED <<args, wf, pc, op, idx, ret, iters, jobs, clock>>

\* lines 180-181: time.sleep(simulation_time)
RunSleep(t) ==
    /\ calls[t].pc = "tracking"
    /\ calls' = [calls EXCEPT ![t].pc = "slept"]
    /\ UNCHANGED <<args, wf, pc, op, idx, ret, iters, jobs, tracker, clock>>

\* line 184: emissions_record = emissions_tracker.stop_tracking()
RunStopTracking(t) ==
    /\ calls[t].pc = "slept"
    /\ \E emissions \in Emissions :
       \E r \in {StopTracking(tracker, clock, emissions)} :
          /\ tracker' = r.tracker
          /\ calls' = [calls EXCEPT ![t].pc = "stopped",
                                    ![t].emissions_record = r.record]
    /\ UNCHANGED <<args, wf, pc, op, idx, ret, iters, jobs, clock>>

\* lines 187-198: update_job(job_id, emissions_kg_co2=..., status=COMPLETED)
\* and the result returned
RunComplete(t) ==
    /\ calls[t].pc = "stopped"
    /\ \E e \in {GetOrZero(calls[t].emissions_record, "emissions_kg_co2")} :
          /\ jobs' = UpdateJob(jobs, calls[t].job_id,
                               [emissions_kg_co2 |-> FromInt(e),
                                status |-> "completed"])
          /\ calls' = [calls EXCEPT
                 ![t].pc = "done",
                 ![t].result =
                     [job_id |-> calls[t].job_id, status |-> "completed",
                      emissions_kg_co2 |-> e,
                      duration_seconds |->
                          GetOrZero(calls[t].emissions_record,
                                    "duration_seconds")]]
    /\ UNCHANGED <<args, wf, pc, op, idx, ret, iters, tracker, clock>>

\* A step of run_scheduled_job in thread t, which calls it once
RunStep(t) ==
    \/ RunCheck(t)
    \/ RunSetRunning(t)
    \/ RunStartTracking(t)
    \/ RunSleep(t)
    \/ RunStopTracking(t)
    \/ RunComplete(t)

RunNext ==
    \/ Tick
    \/ SchedulePendingJobsNow
    \/ ScheduleSingleJobNow
    \/ CallUpdateJobStatus
    \/ \E t \in Threads : RunStep(t)

RunSpec == RunInit /\ [][RunNext]_vars

\* ==================================================================
\* Properties
\* ==================================================================
\* The last call was windowed[idx] and it has returned or raised.
GotItem == pc = "returned" /\ op = "getitem"

\* idx is a valid offset: 0 <= idx < length
ValidOffset == 0 <= idx /\ idx < WindowCount(wf)

\* The spacing of the first two samples handed to the constructor.
InputStep == args.data[2].datetime - args.data[1].datetime

\* The piecewise-linear curve through the samples handed to the
\* constructor, read at minute m + 1/2 (h = 2m + 1 half-minutes), for a
\* minute m that lies between two samples.
CurveAtHalf(h) ==
    LET k == CHOOSE j \in 1..(Len(args.data) - 1) :
                 /\ 2 * args.data[j].datetime <= h
                 /\ h <= 2 * args.data[j + 1].datetime
        p == args.data[k]
        q == args.data[k + 1]
    IN  RAdd(p.value,
             RMul(RSub(q.value, p.value),
                  Rat(h - 2 * p.datetime, 2 * (q.datetime - p.datetime))))

\* The samples cover [a, b].
Covers(a, b) ==
    /\ Len(args.data) >= 2
    /\ args.data[1].datetime <= a
    /\ b <= args.data[Len(args.data)].datetime

\* The integral of the curve over [a, b], in value-minutes: the curve is
\* linear on every minute, so its integral there is its midpoint value.
RECURSIVE CurveIntegral(_, _)
CurveIntegral(a, b) ==
    IF a >= b THEN FromInt(0)
    ELSE RAdd(CurveAtHalf(2 * a + 1), CurveIntegral(a + 1, b))

CurveAverage(a, b) == RDiv(CurveIntegral(a, b), FromInt(b - a))

\* The point list of windowed[idx]: [lbound] + inner samples + [rbound]
PointList == WindowData(wf, idx, LBound(wf, idx).pt, RBound(wf, idx).pt)

\* C1: for every valid offset i, get(i).value is the time-weighted average
\* over [S + i*step, S + i*step + D] of the piecewise-linear curve through
\* the samples; it is the trapezoidal sum over the point list (left
\* boundary at the window's start, the inner samples, right boundary at
\* the window's end) divided by the time between its first and last
\* point, which is exactly D*60 seconds.
C1_TimeWeightedAverage ==
    (GotItem /\ ValidOffset) =>
        LET a == args.start + idx * InputStep
            b == a + args.duration
            pts == PointList
            elapsed == TotalSeconds(pts[Len(pts)].datetime - pts[1].datetime)
        IN  /\ ret.err = "none"
            /\ Covers(a, b)
            /\ ret.val.value = CurveAverage(a, b)
            /\ pts[1].datetime = a
            /\ pts[Len(pts)].datetime = b
            /\ elapsed = args.duration * 60
            /\ ret.val.value = RDiv(SumAcc(pts), FromInt(elapsed))

\* A window beyond the first, over an inner sample, whose two ends fall
\* between samples of a forecast that is not flat.
C1_Witness ==
    /\ GotItem /\ ValidOffset /\ ret.err = "none"
    /\ idx >= 1
    /\ wf.ndata >= 2
    /\ wf.start # wf.data[1].datetime
    /\ ret.val.start_value # ret.val.end_value
    /\ ret.val.value.d > 1

\* C2 as the specification states it: samples (0: 100, 30: 200), D = 15,
\* S = 0: get(0) has value 150, start 0, end 15.
C2_ValueIs150 ==
    (GotItem /\ args = ScenarioLine /\ idx = 0) =>
        /\ ret.err = "none"
        /\ ret.val.value = FromInt(150)
        /\ ret.val.start = 0
        /\ ret.val.end = 15

\* C2 amended: in that scenario get(0) has value 125, the mean of the
\* line over [0, 15], which runs from 100 to 150; start 0, end 15.
C2_ValueIs125 ==
    (GotItem /\ args = ScenarioLine /\ idx = 0) =>
        /\ ret.err = "none"
        /\ ret.val.value = FromInt(125)
        /\ ret.val.start_value = FromInt(100)
        /\ ret.val.end_value = FromInt(150)
        /\ ret.val.start = 0
        /\ ret.val.end = 15

C2_Witness == GotItem /\ args = ScenarioLine /\ idx = 0 /\ ret.err = "none"

\* The last call was min(windowed) and it has returned or raised.
GotMin == pc = "returned" /\ op = "min"

\* C3: the minimum window has a value <= the value of every exposed
\* window, it is one of them, and of the exposed windows with that value
\* it is the one that starts first.
C3_BestWindowIsEarliestMinimum ==
    (GotMin /\ WindowCount(wf) > 0) =>
        /\ ret.err = "none"
        /\ \E i \in 0..(WindowCount(wf) - 1) : GetItem(wf, i).val = ret.val
        /\ \A i \in 0..(WindowCount(wf) - 1) :
              LET w == GetItem(wf, i).val
              IN  /\ RLeq(ret.val.value, w.value)
                  /\ w.value = ret.val.value => ret.val.start <= w.start

\* The minimum is shared by two windows and is not the first window.
C3_Witness ==
    /\ GotMin /\ ret.err = "none"
    /\ ret.val.start > wf.start
    /\ \E i \in 0..(WindowCount(wf) - 1) :
          LET w == GetItem(wf, i).val
          IN  w.value = ret.val.value /\ w.start > ret.val.start

\* C4: for every valid offset i, get(i).start = S + i*step and
\* get(i).end - get(i).start = D, step being the spacing of the first two
\* samples.
C4_WindowBounds ==
    (GotItem /\ ValidOffset) =>
        /\ ret.err = "none"
        /\ ret.val.start = args.start + idx * InputStep
        /\ ret.val.end - ret.val.start = args.duration

\* A window beyond the first, of a duration that is no multiple of the
\* step.
C4_Witness ==
    /\ GotItem /\ ValidOffset /\ ret.err = "none"
    /\ idx >= 1
    /\ InputStep > 1
    /\ args.duration % InputStep # 0

\* The constructor has run.
Constructed == pc # "new"

\* C5 as the specification states it: built from exactly one sample, the
\* constructor fails with the 'Insufficient forecast data' ValueError,
\* with or without a lookahead cap or a deadline.
C5_OneSampleIsInsufficient ==
    (Constructed /\ Len(args.data) = 1) =>
        /\ pc = "failed"
        /\ ~wf.built
        /\ (op = "init" => ret.err = "ValueError: Insufficient forecast data")

\* The errors Python reports as IndexError.
IndexErrors == {"IndexError: Window index out of range", "IndexError"}

\* C6 as the specification states it: get(i) fails with an index error
\* for every i outside [0, length), the negative ones included, and
\* returns a window for every i inside. Stated for the forecasts that
\* begin at or before S, which the constructor anchors as specified.
C6_IndexOutOfRange ==
    (GotItem /\ args.data[1].datetime <= args.start) =>
        IF ValidOffset THEN ret.err = "none" ELSE ret.err \in IndexErrors

\* The samples the truncation keeps: all of them without a cap, otherwise
\* those no later than min(S + lookahead, deadline) + D.
Retained ==
    IF args.max_window_minutes = None /\ args.end_constraint = None
    THEN args.data
    ELSE SelectSeq(args.data,
             LAMBDA d : d.datetime <= MaxDataTime(args.start, args.duration,
                            OrDefault(args.max_window_minutes),
                            args.end_constraint))

\* The position in Retained of the latest sample at or before S, or of
\* the first sample when there is none.
Anchor ==
    LET atOrBefore == {j \in 1..Len(Retained) : Retained[j].datetime <= args.start}
    IN  IF atOrBefore = {} THEN 1
        ELSE CHOOSE j \in atOrBefore : \A k \in atOrBefore : k <= j

\* C7 as the specification states it: the working sequence starts at the
\* latest sample at or before S, or at the first sample when no sample is
\* at or before S, and keeps every later sample.
C7_ReAnchor ==
    wf.built => wf.data = SubSeq(Retained, Anchor, Len(Retained))

\* The last call was len(windowed) and it has returned.
GotLen == pc = "returned" /\ op = "len"

\* Offset i satisfies the three conditions of C8.
OffsetAllowed(i) ==
    /\ i + wf.ndata <= Len(wf.data) - 1
    /\ wf.max_window_minutes # None =>
           i <= wf.max_window_minutes.v \div wf.data_stepsize
    /\ wf.end_constraint # None =>
           wf.start + i * wf.data_stepsize < wf.end_constraint.v

AllowedOffsets == {i \in 0..Len(wf.data) : OffsetAllowed(i)}

\* C8: length is the number of offsets i >= 0 with (1) i + spanCount <=
\* the last index of the working sequence, (2) i <= floor(lookahead/step)
\* under a lookahead cap, (3) S + i*step < deadline under a deadline.
\* These offsets are 0 .. length-1 and length is not negative; no exposed
\* window starts after S + lookahead or at or after the deadline, and
\* get(i) of an exposed window reads no sample past the working sequence.
C8_LengthCountsAllowedOffsets ==
    GotLen =>
        LET length == ret.val.length
        IN  /\ length >= 0
            /\ length = Cardinality(AllowedOffsets)
            /\ AllowedOffsets = 0..(length - 1)
            /\ \A i \in 0..(length - 1) :
                  /\ wf.max_window_minutes # None =>
                         WindowStart(wf, i) <= wf.start + wf.max_window_minutes.v
                  /\ wf.end_constraint # None =>
                         WindowStart(wf, i) < wf.end_constraint.v
                  /\ i + wf.ndata < Len(wf.data)
                  /\ GetItem(wf, i).err = "none"

\* The deadline, and neither the data nor the lookahead cap, ends the
\* exposed range, which is not empty.
C8_Witness ==
    /\ GotLen
    /\ ret.val.length >= 1
    /\ wf.end_constraint # None /\ wf.max_window_minutes # None
    /\ ret.val.length + wf.ndata <= Len(wf.data) - 1
    /\ ret.val.length <= wf.max_window_minutes.v \div wf.data_stepsize
    /\ WindowStart(wf, ret.val.length) >= wf.end_constraint.v

\* S is the timestamp of a sample and D is a whole number of steps.
Aligned ==
    /\ Len(args.data) >= 2
    /\ \E p \in 1..Len(args.data) : args.data[p].datetime = args.start
    /\ args.duration % InputStep = 0

\* v[a]/2 + v[a+1] + ... + v[b-1] + v[b]/2 over the samples handed to
\* the constructor, a < b.
RECURSIVE InnerSum(_, _)
InnerSum(a, b) ==
    IF a > b THEN FromInt(0) ELSE RAdd(args.data[a].value, InnerSum(a + 1, b))

RawTrapezoidAverage(a, b) ==
    RDiv(RAdd(RAdd(RMul(Half, args.data[a].value), InnerSum(a + 1, b - 1)),
              RMul(Half, args.data[b].value)),
         FromInt(b - a))

\* C9: when D is exactly k steps and S is the timestamp of a sample, for
\* every valid offset i get(i).value is the plain trapezoidal average of
\* the k+1 consecutive raw samples i .. i+k counted from the sample at S,
\* and both boundary values are raw sample values. For the samples
\* (0: 100, 30: 100, 60: 300), D = 30, S = 0: length is 2, get(0).value
\* is 100 and get(1).value is 200.
C9_AlignedWindowsUseRawSamples ==
    /\ (GotItem /\ ValidOffset /\ Aligned) =>
          LET p == CHOOSE q \in 1..Len(args.data) :
                       args.data[q].datetime = args.start
              k == args.duration \div InputStep
              a == p + idx
          IN  /\ ret.err = "none"
              /\ a + k <= Len(args.data)
              /\ ret.val.value = RawTrapezoidAverage(a, a + k)
              /\ ret.val.start_value = args.data[a].value
              /\ ret.val.end_value = args.data[a + k].value
    /\ (GotLen /\ args = ScenarioThree) => ret.val.length = 2
    /\ (GotItem /\ args = ScenarioThree /\ idx = 0) =>
          ret.err = "none" /\ ret.val.value = FromInt(100)
    /\ (GotItem /\ args = ScenarioThree /\ idx = 1) =>
          ret.err = "none" /\ ret.val.value = FromInt(200)

\* A window of two steps beyond the first, over samples that differ.
C9_Witness ==
    /\ GotItem /\ ValidOffset /\ Aligned /\ ret.err = "none"
    /\ idx >= 1
    /\ args.duration \div InputStep >= 2
    /\ ret.val.start_value # ret.val.end_value

\* Every sample handed to the constructor has the value v.
Flat(v) == \A k \in 1..Len(args.data) : args.data[k].value = v

RECURSIVE YieldedFrom(_, _)
YieldedFrom(self, i) ==
    IF i >= WindowCount(self) THEN <<>>
    ELSE LET r == GetItem(self, i)
         IN  IF r.err # "none" THEN <<>>
             ELSE <<r.val>> \o YieldedFrom(self, i + 1)

\* C11: len, get(i) and iteration leave every field of the averager as
\* the constructor set it, so two iterations of the same averager, one
\* after the other or with their steps interleaved in any order, yield
\* the same windows: each has yielded a prefix of the one sequence, and
\* the whole of it once it has finished.
C11_IterationIsRepeatable ==
    wf.built =>
        LET all == YieldedFrom(wf, 0)
        IN  /\ wf = NewWindowedForecast(args).obj
            /\ \A k \in Iterators :
                  /\ Len(iters[k].yielded) <= Len(all)
                  /\ iters[k].yielded = SubSeq(all, 1, Len(iters[k].yielded))
                  /\ iters[k].state = "done" => iters[k].yielded = all
            /\ (\A k \in Iterators : iters[k].state = "done") =>
                   iters[1].yielded = iters[2].yielded

\* The first iterator has finished with two windows or more that differ,
\* while the second, started before the first finished or after, is in
\* the middle of the same windows.
C11_Witness ==
    /\ wf.built
    /\ iters[1].state = "done"
    /\ Len(iters[1].yielded) >= 2
    /\ iters[1].yielded[1] # iters[1].yielded[2]
    /\ iters[2].state = "running"
    /\ iters[2].i = 1

\* The working sequence as section 4.1 of the specification defines it:
\* the retained samples from the anchor on.
WorkingSequence == SubSeq(Retained, Anchor, Len(Retained))

\* C12 as the specification states it: the constructor fails with the
\* 'No index found' ValueError whenever no sample of the working sequence
\* has a timestamp >= S + D; a forecast too short for one window is never
\* accepted. Stated for the forecasts that begin at or before S and keep
\* two samples or more, which reach the search of the end of the window.
C12_NoCoverage ==
    (/\ Constructed
     /\ Len(Retained) >= 2
     /\ args.data[1].datetime <= args.start
     /\ \A j \in 1..Len(WorkingSequence) :
           WorkingSequence[j].datetime < args.start + args.duration)
    => /\ pc = "failed"
       /\ ~wf.built
       /\ (op = "init" => ret.err = "ValueError: No index found")

\* C13: min(windowed) on an averager whose length is 0 raises the
\* ValueError of min() on an empty iterable, which reaches the caller; it
\* returns no window.
C13_NoWindows ==
    (GotMin /\ WindowCount(wf) = 0) =>
        /\ ret.err = "ValueError: min() arg is an empty sequence"
        /\ ret.val = None

\* min() was called on a constructed averager that exposes no window.
C13_Witness ==
    /\ GotMin
    /\ wf.built
    /\ WindowCount(wf) = 0
    /\ ret.err # "none"

\* A lookahead cap or a deadline was given to the constructor.
Capped == args.max_window_minutes # None \/ args.end_constraint # None

\* min(S + lookahead, deadline) + D, with the deadline alone when no
\* lookahead cap is given and the lookahead alone when no deadline is.
TruncationBound ==
    (IF args.max_window_minutes = None THEN args.end_constraint.v
     ELSE IF args.end_constraint = None
          THEN args.start + args.max_window_minutes.v
          ELSE Min2(args.start + args.max_window_minutes.v,
                    args.end_constraint.v))
    + args.duration

\* The samples with a timestamp at or before that bound.
RetainedAsSpecified ==
    SelectSeq(args.data, LAMBDA d : d.datetime <= TruncationBound)

\* C17 as the specification states it: under a lookahead cap or a
\* deadline the truncation keeps exactly the samples with timestamp <=
\* min(S + lookahead, deadline) + D, so that the working sequence ends
\* with the last of them, and the constructor fails with the
\* 'Insufficient forecast data' ValueError if and only if fewer than two
\* samples are kept. Stated for the forecasts that begin at or before S.
C17_Truncation ==
    (Constructed /\ Capped /\ args.data[1].datetime <= args.start) =>
        /\ (pc = "failed" /\ ret.err = "ValueError: Insufficient forecast data")
               <=> Len(RetainedAsSpecified) < 2
        /\ wf.built =>
               /\ RetainedAsSpecified # <<>>
               /\ wf.data # <<>>
               /\ wf.data[Len(wf.data)] =
                      RetainedAsSpecified[Len(RetainedAsSpecified)]

\* schedule_single_job has returned or raised.
GotSingle == pc = "returned" /\ op = "schedule_single_job"

\* The averager that get_current_vs_optimal builds for the call.
SingleWindowed ==
    CoreWindowedForecast(args.forecast, args.job.duration_minutes, args.now,
                         Some(MaxWindowHours * 60))

\* C14: get_current_vs_optimal returns windowed[0] and min(windowed) of
\* one and the same averager, so the optimal window's value is never
\* above the value of the window that starts now, and the savings that
\* schedule_single_job derives from the pair are never negative.
C14_BestNeverAboveNow ==
    GotSingle =>
        /\ ret.err = "none"
        /\ ret.val.ci_now = CoreGetItem(SingleWindowed, 0).val.value
        /\ ret.val.ci_optimal = CoreMin(SingleWindowed).val.value
        /\ ret.val.optimal_time = CoreMin(SingleWindowed).val.start
        /\ RLeq(ret.val.ci_optimal, ret.val.ci_now)
        /\ RLeq(FromInt(0), ret.val.savings_g)
        /\ RLeq(FromInt(0), ret.val.savings_percent)

\* The optimal window is a later one, of a lower value than the window
\* that starts now, and the savings are positive.
C14_Witness ==
    /\ GotSingle /\ ret.err = "none"
    /\ ret.val.optimal_time > args.now
    /\ RLess(ret.val.ci_optimal, ret.val.ci_now)
    /\ RLess(FromInt(0), ret.val.savings_g)

\* A step of the model is a call of schedule_pending_jobs.
PendingCall == pc = "idle" /\ op' = "schedule_pending_jobs"

\* The ids of the jobs of the list are all different.
DistinctIds(js) ==
    \A i, j \in 1..Len(js) : js[i].job_id = js[j].job_id => i = j

\* The positions of the pending jobs of the list.
PendingIn(js) == {k \in 1..Len(js) : js[k].status = "pending"}

\* C15: schedule_pending_jobs, on a list of jobs of distinct ids, makes
\* every pending job SCHEDULED if the grid's intensity is strictly below
\* the job's threshold and DEFERRED otherwise, equality included. After
\* the call none of them is pending, scheduled_count + deferred_count is
\* the number of jobs that were pending, and the jobs that were not
\* pending are as they were.
C15_PendingJobsDecided ==
    [][(PendingCall /\ DistinctIds(jobs)) =>
          /\ Len(jobs') = Len(jobs)
          /\ \A k \in 1..Len(jobs) :
                IF jobs[k].status = "pending"
                THEN /\ (jobs'[k].status = "scheduled" <=>
                            args'.carbon_intensity
                                < jobs[k].carbon_intensity_threshold)
                     /\ (jobs'[k].status = "deferred" <=>
                            args'.carbon_intensity
                                >= jobs[k].carbon_intensity_threshold)
                     /\ jobs'[k].status # "pending"
                ELSE jobs'[k] = jobs[k]
          /\ ret'.val.scheduled_count + ret'.val.deferred_count
                 = Cardinality(PendingIn(jobs))
          /\ ret'.val.scheduled_count
                 = Cardinality({k \in 1..Len(jobs') :
                                   jobs'[k].status = "scheduled"
                                   /\ jobs[k].status = "pending"})
          /\ PendingIn(jobs') = {}]_vars

\* schedule_pending_jobs has returned.
GotPending == pc = "returned" /\ op = "schedule_pending_jobs"

\* One call scheduled a job and deferred another, whose threshold equals
\* the grid's intensity.
C15_Witness ==
    /\ GotPending
    /\ DistinctIds(jobs)
    /\ ret.val.scheduled_count = 1
    /\ ret.val.deferred_count = 1
    /\ \E k \in 1..Len(jobs) :
          /\ jobs[k].status = "deferred"
          /\ jobs[k].carbon_intensity_threshold = args.carbon_intensity

\* The search of a start for the job raises whatever the forecast is.
SearchFails(job, now) ==
    \A forecast \in SearchForecasts(now, MaxWindowHours + 2) :
        GetBestStartTime(job.duration_minutes, MaxWindowHours, forecast, now).err
            # "none"

\* C16: when get_best_start_time raises for a deferred job, the call does
\* not fail: the job is DEFERRED with scheduled_for at the clock plus six
\* hours, and every other pending job is scheduled or deferred by the same
\* call, with a scheduled_for of its own.
C16_FallbackOnFailedSearch ==
    [][(PendingCall /\ DistinctIds(jobs)) =>
          \A k \in PendingIn(jobs) :
              (/\ args'.carbon_intensity >= jobs[k].carbon_intensity_threshold
               /\ SearchFails(jobs[k], args'.now))
              => /\ ret'.err = "none"
                 /\ jobs'[k].status = "deferred"
                 /\ jobs'[k].scheduled_for = Some(args'.now + 6 * 60)
                 /\ \A j \in PendingIn(jobs) :
                       /\ jobs'[j].status \in {"scheduled", "deferred"}
                       /\ jobs'[j].scheduled_for # None]_vars

\* The search failed for the job of the higher priority, which got the
\* fallback start, and the call went on to the other job, for which the
\* search gave a start.
C16_Witness ==
    /\ GotPending
    /\ DistinctIds(jobs)
    /\ \E k, j \in 1..Len(jobs) :
          /\ jobs[k].priority > jobs[j].priority
          /\ jobs[k].status = "deferred"
          /\ SearchFails(jobs[k], args.now)
          /\ jobs[k].scheduled_for = Some(args.now + 6 * 60)
          /\ jobs[j].status = "deferred"
          /\ jobs[j].scheduled_for # None
          /\ jobs[j].scheduled_for # Some(args.now + 6 * 60)

\* C19: in schedule_single_job the savings are the emissions now minus
\* the optimal emissions, each being (power/1000) * (duration/60) *
\* (intensity/1000); savings_percent is 100 * savings / now when the
\* emissions now are positive and exactly 0 when they are not; the
\* intensities being non-negative, savings_percent lies within [0, 100].
C19_EstimateSavings ==
    GotSingle =>
        LET now == EstimateEmissions(args.job.duration_minutes,
                                     args.job.power_draw_watts, ret.val.ci_now)
            best == EstimateEmissions(args.job.duration_minutes,
                                      args.job.power_draw_watts,
                                      ret.val.ci_optimal)
            savings == RSub(now, best)
        IN  /\ ret.err = "none"
            /\ RLeq(FromInt(0), ret.val.ci_now)
            /\ RLeq(FromInt(0), ret.val.ci_optimal)
            /\ ret.val.emissions_now_g = RMul(now, FromInt(1000))
            /\ ret.val.emissions_optimal_g = RMul(best, FromInt(1000))
            /\ ret.val.savings_g = RMul(savings, FromInt(1000))
            /\ ret.val.savings_percent =
                   IF RLess(FromInt(0), now)
                   THEN RDiv(RMul(FromInt(100), savings), now)
                   ELSE FromInt(0)
            /\ RLeq(FromInt(0), ret.val.savings_percent)
            /\ RLeq(ret.val.savings_percent, FromInt(100))

\* Positive emissions now and savings of a part of them.
C19_Witness ==
    /\ GotSingle /\ ret.err = "none"
    /\ RLess(FromInt(0), ret.val.emissions_now_g)
    /\ RLess(FromInt(0), ret.val.savings_percent)
    /\ RLess(ret.val.savings_percent, FromInt(100))

\* The emissions now are zero, for a job of no duration.
C19_WitnessZero ==
    /\ GotSingle /\ ret.err = "none"
    /\ ret.val.emissions_now_g = FromInt(0)
    /\ ret.val.savings_percent = FromInt(0)

\* An emission estimator has returned.
GotEmissions ==
    /\ pc = "returned"
    /\ op \in {"estimate_emissions", "calculate_emissions_for_job",
               "emissions_now"}

\* (powerWatts/1000) * (durationMinutes/60) * (intensity/1000), as one
\* fraction
EmissionsFormula(power_watts, duration_minutes, intensity) ==
    Rat(power_watts * duration_minutes * intensity.n,
        1000 * 60 * 1000 * intensity.d)

\* C18: estimate_emissions, calculate_emissions_for_job with an explicit
\* intensity, 0 included, and the emissions that schedule_single_job
\* computes in line all give (powerWatts/1000) * (durationMinutes/60) *
\* (intensity/1000) kg, hence the same value for the same inputs; 300 W
\* for 60 minutes at 200 g/kWh give 0.06 kg.
C18_EstimatorsAgree ==
    GotEmissions =>
        /\ ret.err = "none"
        /\ ret.val = EmissionsFormula(args.power_watts, args.duration_minutes,
                                      args.carbon_intensity)
        /\ ret.val = EstimateEmissions(args.duration_minutes, args.power_watts,
                                       args.carbon_intensity)
        /\ ret.val = CalculateEmissionsForJob(JobOf(args), args.carbon_intensity)
        /\ ret.val = EstimateSavings(JobOf(args), args.carbon_intensity,
                                     args.carbon_intensity).emissions_now
        /\ args = ScenarioEmissions => ret.val = Rat(6, 100)

\* calculate_emissions_for_job was given the intensity 0 for a job that
\* draws power for some time, and returned 0.
C18_Witness ==
    /\ pc = "returned"
    /\ op = "calculate_emissions_for_job"
    /\ args.carbon_intensity = FromInt(0)
    /\ args.power_watts > 0
    /\ args.duration_minutes > 0
    /\ ret.val = FromInt(0)

\* get_footprint_reduction_estimate has returned.
GotFootprint == pc = "returned" /\ op = "get_footprint_reduction_estimate"

\* PUE * (runtimeSeconds/3600) * sum(units * wattsPerUnit) / 1000
EnergyFormula ==
    LET watts == SumUnits(args.jobinfo)
    IN  Rat(args.PUE.n * args.runtime_seconds * watts.n,
            args.PUE.d * 3600 * watts.d * 1000)

\* C20: get_footprint_reduction_estimate returns (now, best, savings) with
\* now = energy * avgNowIntensity, best = energy * avgBestIntensity and
\* savings = now - best, energy being PUE * (runtimeSeconds/3600) *
\* sum(units * wattsPerUnit) / 1000; the savings are not clamped: they are
\* negative whenever avgBestIntensity > avgNowIntensity and energy > 0.
C20_FootprintReduction ==
    GotFootprint =>
        /\ ret.err = "none"
        /\ ret.val.now = RMul(EnergyFormula, args.average_now_ci)
        /\ ret.val.best = RMul(EnergyFormula, args.average_best_ci)
        /\ ret.val.savings = RSub(ret.val.now, ret.val.best)
        /\ (/\ RLess(args.average_now_ci, args.average_best_ci)
            /\ RLess(FromInt(0), EnergyFormula))
           => RLess(ret.val.savings, FromInt(0))

\* The best intensity is above the intensity now and the savings are
\* negative, for two kinds of units under a PUE above 1.
C20_Witness ==
    /\ GotFootprint
    /\ Len(args.jobinfo) = 2
    /\ args.PUE # FromInt(1)
    /\ RLess(args.average_now_ci, args.average_best_ci)
    /\ RLess(ret.val.savings, FromInt(0))

\* The interpolation between sample[idx + ndata - 1] and sample[idx + ndata]
\* of the working sequence, read at the end of the window idx.
InterpolatedAtEnd ==
    Interp(At(wf.data, idx + wf.ndata - 1), At(wf.data, idx + wf.ndata),
           WindowEnd(wf, idx)).pt

\* C21 as the specification states it: for a valid offset i the right
\* boundary is the last sample as it is when i + spanCount is the last
\* index of the working sequence, and otherwise the interpolation between
\* sample[i + spanCount - 1] and sample[i + spanCount] at the window's end.
C21_LastSampleAtLastIndex ==
    (GotItem /\ ValidOffset) =>
        /\ ret.err = "none"
        /\ ret.val.end_value =
               IF idx + wf.ndata = Len(wf.data) - 1
               THEN At(wf.data, -1).value
               ELSE InterpolatedAtEnd.value

\* C21: for every valid offset i the right boundary of get(i) is the
\* linear interpolation between sample[i + spanCount - 1] and
\* sample[i + spanCount] read at the window's end, also when
\* i + spanCount is the last index of the working sequence; the last
\* sample is taken as it is when i + spanCount equals the length of the
\* working sequence, which no valid offset reaches.
C21_RightBoundary ==
    (GotItem /\ ValidOffset) =>
        /\ ret.err = "none"
        /\ idx + wf.ndata <= Len(wf.data) - 1
        /\ RBound(wf, idx).pt = InterpolatedAtEnd
        /\ InterpolatedAtEnd.datetime = ret.val.end
        /\ ret.val.end_value = InterpolatedAtEnd.value

\* The last window of a forecast, which ends before the last sample on a
\* value that is not the last sample's.
C21_Witness ==
    /\ GotItem /\ ValidOffset /\ ret.err = "none"
    /\ idx + wf.ndata = Len(wf.data) - 1
    /\ ret.val.end < At(wf.data, -1).datetime
    /\ ret.val.end_value # At(wf.data, -1).value

\* The working sequence is strictly increasing and uniformly spaced.
UniformWorking ==
    /\ wf.data_stepsize > 0
    /\ \A k \in 1..(Len(wf.data) - 1) :
           wf.data[k + 1].datetime - wf.data[k].datetime = wf.data_stepsize

\* The counts n of working samples with sample[n - 1] + step >= S + D
SpanCounts ==
    {n \in 1..Len(wf.data) :
        At(wf.data, n - 1).datetime + wf.data_stepsize >= wf.start + wf.duration}

\* C22: for uniformly spaced, strictly increasing samples and every valid
\* offset i, the two interpolations of get(i) are made inside their pair
\* of samples: sample[i] <= windowStart <= sample[i + 1] and
\* sample[i + spanCount - 1] <= windowEnd <= sample[i + spanCount] in time,
\* spanCount being the least count with sample[spanCount - 1] + step
\* >= S + D.
C22_NoExtrapolation ==
    (GotItem /\ ValidOffset /\ UniformWorking) =>
        /\ ret.err = "none"
        /\ wf.ndata \in SpanCounts
        /\ \A n \in SpanCounts : wf.ndata <= n
        /\ At(wf.data, idx).datetime <= ret.val.start
        /\ ret.val.start <= At(wf.data, idx + 1).datetime
        /\ At(wf.data, idx + wf.ndata - 1).datetime <= ret.val.end
        /\ ret.val.end <= At(wf.data, idx + wf.ndata).datetime
        /\ LBound(wf, idx).pt.datetime = ret.val.start
        /\ RBound(wf, idx).pt.datetime = ret.val.end

\* A window beyond the first whose two ends fall strictly between the
\* samples of their pairs, more than one step apart.
C22_Witness ==
    /\ GotItem /\ ValidOffset /\ UniformWorking /\ ret.err = "none"
    /\ idx >= 1
    /\ wf.ndata >= 2
    /\ At(wf.data, idx).datetime < ret.val.start
    /\ ret.val.start < At(wf.data, idx + 1).datetime
    /\ At(wf.data, idx + wf.ndata - 1).datetime < ret.val.end
    /\ ret.val.end < At(wf.data, idx + wf.ndata).datetime

\* The step that the simplified averager reads off the samples it is given
RawStep ==
    IF Len(args.data) >= 2 THEN args.data[2].datetime - args.data[1].datetime
    ELSE MockStep

\* The samples given to the constructor that lie in the window idx
RawInside ==
    LET window_start == args.start + idx * RawStep
    IN  SelectSeq(args.data,
                  LAMBDA d : /\ window_start <= d.datetime
                             /\ d.datetime <= window_start + args.duration)

\* The line through two samples, read at minute t
LineAt(p, q, t) ==
    RAdd(p.value, RMul(RSub(q.value, p.value),
                       Rat(t - p.datetime, q.datetime - p.datetime)))

Refused(t) ==
    calls[t].pc = "done" /\ "error" \in DOMAIN calls[t].result

\* C24: a call of run_scheduled_job goes on past its test only for a job
\* that exists and whose status is SCHEDULED; for an unknown id or a job
\* of any other status it returns an error and leaves the jobs, the
\* emissions log and the tracker as they were. A job is set RUNNING only
\* by a call that passed the test.
C24_RunOnlyScheduled ==
    [][/\ \A t \in Threads :
             calls[t].pc = "idle" /\ calls'[t].pc # "idle" =>
                /\ jobs' = jobs
                /\ tracker' = tracker
                /\ LET k == FirstWithId(jobs, calls'[t].job_id)
                   IN  IF k # 0 /\ jobs[k].status = "scheduled"
                       THEN calls'[t].pc = "checked"
                       ELSE /\ calls'[t].pc = "done"
                            /\ "error" \in DOMAIN calls'[t].result
       /\ \A k \in 1..Len(jobs) :
             jobs[k].status # "running" /\ jobs'[k].status = "running" =>
                \E t \in Threads :
                   calls[t].pc = "checked" /\ calls[t].job = k]_vars

\* A call was refused for a completed job, and another for an id that no
\* job has.
C24_Witness ==
    /\ \E t \in Threads :
          /\ Refused(t)
          /\ calls[t].job # 0
          /\ calls[t].result.status = "completed"
    /\ \E t \in Threads : Refused(t) /\ calls[t].job = 0

\* A call of run_scheduled_job that returned its result
Succeeded(t) ==
    calls[t].pc = "done" /\ "error" \notin DOMAIN calls[t].result

\* C25: a call of run_scheduled_job that succeeds took from stop_tracking
\* one record that carries its job's name, stored that record's emissions
\* on the job, which is COMPLETED, and left the tracker idle.
C25_RecordOfTheJob ==
    \A t \in Threads :
        Succeeded(t) =>
           /\ calls[t].emissions_record # EmptyRecord
           /\ calls[t].emissions_record.job_name
                  = Some(jobs[calls[t].job].name)

\* C26: a job that is RUNNING has a scheduled_for that is not in the
\* future.
C26_NotBeforeScheduledFor ==
    \A k \in 1..Len(jobs) :
        jobs[k].status = "running" =>
           /\ jobs[k].scheduled_for # None
           /\ jobs[k].scheduled_for.v <= clock

\* C27: a job that is DEFERRED stays DEFERRED while time passes and under
\* every call of schedule_pending_jobs and every step of run_scheduled_job:
\* its status changes only in a call of schedule_single_job or in a direct
\* update of its status.
C27_DeferredStays ==
    [][\A k \in 1..Len(jobs) :
          jobs[k].status = "deferred" /\ jobs'[k].status # "deferred" =>
             CallUpdateJobStatus \/ ScheduleSingleJobNow]_vars

\* A deferred job whose scheduled_for has passed was refused by
\* run_scheduled_job and is deferred still, while another job of the queue
\* was scheduled.
C27_Witness ==
    \E t \in Threads :
       /\ Refused(t)
       /\ calls[t].job # 0
       /\ calls[t].result.status = "deferred"
       /\ jobs[calls[t].job].status = "deferred"
       /\ jobs[calls[t].job].scheduled_for.v < clock
       /\ \E k \in 1..Len(jobs) : jobs[k].status = "scheduled"

\* C28: every job that is COMPLETED has its completed_at set.
C28_CompletedHasCompletedAt ==
    \A k \in 1..Len(jobs) :
        jobs[k].status = "completed" => jobs[k].completed_at # None

\* C30: of two calls of run_scheduled_job for the same job that have
\* returned, at most one ran the job; the other was refused.
C30_AtMostOneRuns ==
    \A t, u \in Threads :
        /\ t # u
        /\ calls[t].job_id = calls[u].job_id
        /\ Succeeded(t)
        /\ calls[u].pc = "done"
        => Refused(u)

\* The simplified averager was built from the arguments.
CoreBuilt == args.kind = "windowed" /\ pc # "new"

\* get_best_start_time has returned or raised.
GotBestStartTime == pc = "done" /\ op = "get_best_start_time"

\* The duration fails one of the two checks of get_best_start_time.
DurationRefused(duration_minutes, max_window_hours) ==
    duration_minutes < 1 \/ duration_minutes > max_window_hours * 60

\* C29: the simplified averager has at least one window whatever it was
\* built from, window 0 is always returned, with value 0 when there is no
\* sample, and min() finds a window; so get_best_start_time raises only
\* for a duration that fails its checks, and the deferred branch of
\* schedule_pending_jobs takes the six-hour fallback for such durations
\* only.
C29_AlwaysAWindow ==
    /\ CoreBuilt =>
          /\ CoreLen(wf) >= 1
          /\ CoreGetItem(wf, 0).err = "none"
          /\ wf.data = <<>> =>
                /\ CoreGetItem(wf, 0).val.value = FromInt(0)
                /\ CoreGetItem(wf, 0).val.start_value = FromInt(0)
                /\ CoreGetItem(wf, 0).val.end_value = FromInt(0)
          /\ CoreMin(wf).err = "none"
    /\ GotBestStartTime =>
          /\ ret.err # "none" <=>
                DurationRefused(args.duration_minutes, args.max_window_hours)
          /\ DeferredStart(args, args.forecast, args.current_time)
                 = Some(args.current_time + FallbackDelay)
             <=> DurationRefused(args.duration_minutes, MaxWindowHours)

\* Window 0 of an averager built from no sample was returned, with value 0.
C29_Witness ==
    /\ CoreBuilt
    /\ pc = "returned" /\ op = "getitem" /\ idx = 0
    /\ args.data = <<>>
    /\ args.duration > 0
    /\ ret.err = "none"
    /\ ret.val.value = FromInt(0)

=============================================================================
